---- MODULE Spec2Model ----
(***************************************************************************)
(* A model of the ironchain trading controller: the position sizer, the    *)
(* exit manager, the kill switch, the risk manager and the control loop.   *)
(*                                                                         *)
(* Numbers.  The program computes in IEEE doubles.  The model computes in  *)
(* exact rationals <<n, d>> with d > 0 (sizes, percentages) and in         *)
(* integers (prices, equity, times in ms).  A division whose divisor may   *)
(* be zero or negative is modelled by the cases of the double result       *)
(* (+Infinity, -Infinity, NaN) in the comparison that reads it.            *)
(***************************************************************************)
EXTENDS Integers, Sequences, FiniteSets, TLC

VARIABLES
    \* PositionSizer.calculate: the call's parameters and its result
    szParams, szResult,
    \* ExitManager: the inputs of checkExit, its signal, updatePosition's result
    exPosition, exPrice, exEma, exHeld, exSignal, exUpdated,
    \* KillSwitch: the in-memory latch, the recorded event, the sentinel file
    triggered, triggerEvent, killSwitchFile,
    \* the last KillSwitch call and its result; whether isTriggered() has
    \* returned true since the last reset()
    ksCall, ksObserved, ksTrig,
    \* RiskManager: its fields, its configuration flag, and the clock
    currentEquity, highWaterMark, killSwitchTriggered, enableKillSwitch, now,
    \* the last RiskManager call; the highest equity passed so far; whether
    \* reset() was called
    rmCall, rmMaxSeen, rmResetSeen,
    \* IronChainBot: its fields and where its control loop stands
    isRunning, currentPosition, pc,
    \* MarketData as the loop reads it: whether lastTickPrice is set, how much
    \* 15m history there is (0 none, 1 some, 2 enough for entries), whether
    \* the 4h history is enough for the regime filter
    lastTickSet, data15, data4h,
    \* the executor call the last step made; facts about the running cycle
    event, cycle,
    \* PriceFeed: the cached quote and when it was stored; the last getPrice
    \* call and its result
    cachedPrice, lastUpdateTime, pfCall,
    \* CandleBuilder: per timeframe the closed candles and the in-progress
    \* candle; the last call made on it; how many addTick or forceCloseCandle
    \* calls and how many injectHistoricalCandles calls were made
    candles, currentCandles, cbCall, cbTicks, cbInjects,
    \* RegimeFilter.analyze: the call's inputs and its result
    rgInput, rgResult,
    \* EntrySignals.checkEntry: the call's inputs and its result
    enInput, enResult,
    \* a shutdown() called from outside the loop (stopBot, a signal handler):
    \* the await it is suspended at
    sdPc,
    \* the heartbeat callback of start(): the await it is suspended at, how
    \* many times the timer has fired
    hbPc, hbTicks,
    \* RiskManager.openPositions, the list getActiveTrades() returns
    openPositions,
    \* MarketData: lastTickPrice and lastUpdate; when the price in
    \* lastTickPrice came from a provider; the last update() call
    lastTickPrice, lastUpdate, lastTickObtained, mdCall

szVars == <<szParams, szResult>>
exVars == <<exPosition, exPrice, exEma, exHeld, exSignal, exUpdated>>
ksVars == <<triggered, triggerEvent, killSwitchFile>>
ksHist == <<ksCall, ksObserved, ksTrig>>
rmVars == <<currentEquity, highWaterMark, killSwitchTriggered, enableKillSwitch, now>>
rmHist == <<rmCall, rmMaxSeen, rmResetSeen>>
botVars == <<isRunning, currentPosition, pc>>
mdVars == <<lastTickSet, data15, data4h>>
botHist == <<event, cycle>>
pfVars == <<cachedPrice, lastUpdateTime, pfCall>>
\* The components beside the risk controls and the loop
cbVars == <<candles, currentCandles, cbCall, cbTicks, cbInjects>>
rgVars == <<rgInput, rgResult>>
enVars == <<enInput, enResult>>
sdVars == <<sdPc>>
hbVars == <<hbPc, hbTicks>>
trVars == <<openPositions>>
upVars == <<lastTickPrice, lastUpdate, lastTickObtained, mdCall>>
extVars == <<pfVars, cbVars, rgVars, enVars, sdVars, hbVars, trVars, upVars>>
vars == <<szVars, exVars, ksVars, ksHist, rmVars, rmHist, botVars, mdVars, botHist,
          extVars>>

---------------------------------------------------------------------------
(* Rationals <<n, d>>, d > 0 *)

Abs(x) == IF x < 0 THEN -x ELSE x

RatLe(a, b) == a[1] * b[2] <= b[1] * a[2]

RatLt(a, b) == a[1] * b[2] < b[1] * a[2]

RatEq(a, b) == a[1] * b[2] = b[1] * a[2]

\* Math.min on two finite numbers
RatMin(a, b) == IF RatLe(a, b) THEN a ELSE b

RatMax(a, b) == IF RatLe(a, b) THEN b ELSE a

RatMul(a, b) == <<a[1] * b[1], a[2] * b[2]>>

\* a / k for an integer k > 0
RatDivInt(a, k) == <<a[1], a[2] * k>>

RatAdd(a, b) == <<a[1] * b[2] + b[1] * a[2], a[2] * b[2]>>

RatMulInt(a, k) == <<a[1] * k, a[2]>>

---------------------------------------------------------------------------
(* PositionSizer (src/src/risk/position-sizer.ts) *)

\* How far the enumerated entry and stop prices range above 100
SzSpan == 5

SzEquities == {1000, 10000}

SzPrices == 100 .. (100 + SzSpan)

\* riskPercent and maxPositionPercent are parameters of calculate: the
\* configured defaults (0.01, 0.40) and one more value each
SzRiskPercents == {<<1, 100>>, <<1, 2>>}

SzMaxPercents == {<<40, 100>>, <<1, 100>>}

SzNone == [kind |-> "none"]

\* The cap and the minimum with a slip: the larger of the two is kept
CalculateNoCap(p) ==
    LET riskAmount == <<p.equity * p.riskPercent[1], p.riskPercent[2]>>
        stopDistance == Abs(p.entryPrice - p.stopPrice)
    IN  IF stopDistance = 0
        THEN [kind |-> "error"]
        ELSE LET riskBasedSize == RatDivInt(riskAmount, stopDistance)
                 maxPositionUSDC == <<p.equity * p.maxPositionPercent[1],
                                      p.maxPositionPercent[2]>>
                 finalSizeUSDC == RatMax(riskBasedSize, maxPositionUSDC)
                 sizeSOL == RatDivInt(finalSizeUSDC, p.entryPrice)
             IN  [kind |-> "ok",
                  sizeUSDC |-> finalSizeUSDC,
                  sizeSOL |-> sizeSOL,
                  potentialLoss |-> RatMulInt(sizeSOL, stopDistance),
                  percentOfEquity |-> RatDivInt(finalSizeUSDC, p.equity)]

\* PositionSizer.calculate: throws when the stop equals the entry
Calculate(p) ==
    LET riskAmount == <<p.equity * p.riskPercent[1], p.riskPercent[2]>>
        stopDistance == Abs(p.entryPrice - p.stopPrice)
    IN  IF stopDistance = 0
        THEN [kind |-> "error"]
        ELSE LET riskBasedSize == RatDivInt(riskAmount, stopDistance)
                 maxPositionUSDC == <<p.equity * p.maxPositionPercent[1],
                                      p.maxPositionPercent[2]>>
                 finalSizeUSDC == RatMin(riskBasedSize, maxPositionUSDC)
                 sizeSOL == RatDivInt(finalSizeUSDC, p.entryPrice)
             IN  [kind |-> "ok",
                  sizeUSDC |-> finalSizeUSDC,
                  sizeSOL |-> sizeSOL,
                  potentialLoss |-> RatMulInt(sizeSOL, stopDistance),
                  percentOfEquity |-> RatDivInt(finalSizeUSDC, p.equity)]

\* config.risk.riskPerTrade = 0.01 and config.risk.maxPositionSize = 0.40
RiskPerTrade == <<1, 100>>

MaxPositionSize == <<40, 100>>

\* The least position size in USD that validateSize accepts
MinSizeUSD == 10

\* The least size accepted when FORCE_PAPER_EXECUTE is 'true'
MinSizeUSDTest == 1

\* PositionSizer.validateSize(size, equity).valid; forceTest is
\* process.env.FORCE_PAPER_EXECUTE === 'true'
ValidateSize(size, equity, forceTest) ==
    IF RatLt(size.sizeUSDC, <<MinSizeUSD, 1>>)
       /\ (~forceTest \/ RatLt(size.sizeUSDC, <<MinSizeUSDTest, 1>>))
    THEN FALSE
    ELSE IF RatLt(MaxPositionSize, size.percentOfEquity)
    THEN FALSE
    ELSE ~RatLt(<<equity * RiskPerTrade[1] * 11, RiskPerTrade[2] * 10>>,
                size.potentialLoss)

SizerIdle ==
    /\ szParams = SzNone
    /\ szResult = SzNone

SizerInit ==
    /\ szParams \in [equity : SzEquities,
                     entryPrice : SzPrices,
                     stopPrice : SzPrices,
                     riskPercent : SzRiskPercents,
                     maxPositionPercent : SzMaxPercents]
    /\ szResult = SzNone

SizerCalculate ==
    /\ szResult = SzNone
    /\ szResult' = Calculate(szParams)
    /\ UNCHANGED <<szParams, exVars, ksVars, ksHist, rmVars, rmHist, botVars, mdVars, botHist,
                   extVars>>

---------------------------------------------------------------------------
(* ExitManager (src/src/strategy/exit-manager.ts) *)
(* Prices are integers in units of half a dollar: 210 is 105.00 USD.      *)

\* config.exit.partialTPRMultiple = 1.5 = PartialTPRNum / PartialTPRDen
PartialTPRNum == 3

PartialTPRDen == 2

\* config.exit.partialTPPercent = 0.50 = PartialTPPctNum / PartialTPPctDen
PartialTPPctNum == 1

PartialTPPctDen == 2

\* config.exit.timeExitHours
TimeExitHours == 12

\* config.exit.timeExitMinR = 1.0
TimeExitMinRNum == 1

TimeExitMinRDen == 1

\* 1000 * 60 * 60
MsPerHour == 3600000

\* How many hours past the time-exit threshold the enumerated hold times go
ExHeldSpan == 1

ExEntryPrices == {204, 210}

ExStopPrices == {204, 210, 216}

ExPrices == {198, 204, 210, 216, 219, 222}

\* getLatestEMA: null (0 here) with too few candles, else the latest EMA
ExEmas == {0, 207, 220}

ExAmounts == {4, 10}

\* Date.now() - position.entryTime, in ms
ExHelds == {0} \cup {h * MsPerHour : h \in TimeExitHours .. (TimeExitHours + ExHeldSpan)}

ExNone == [kind |-> "none"]

\* rMultiple = profit / risk as a double, compared: rMultiple >= n / d.
\* risk = 0 gives +Infinity (profit > 0), -Infinity (profit < 0) or NaN.
RMultipleGe(profit, risk, n, d) ==
    IF risk > 0 THEN profit * d >= n * risk
    ELSE IF risk < 0 THEN profit * d <= n * risk
    ELSE profit > 0

\* rMultiple < n / d
RMultipleLt(profit, risk, n, d) ==
    IF risk > 0 THEN profit * d < n * risk
    ELSE IF risk < 0 THEN profit * d > n * risk
    ELSE profit < 0

Signal(type, pct, price, newStop) ==
    [kind |-> "signal",
     shouldExit |-> type # "none",
     exitType |-> type,
     percentage |-> pct,
     exitPrice |-> price,
     newStop |-> newStop]

\* checkExit with the stop-loss check after the partial take-profit check
CheckExitPartialFirst(position, ema, currentPrice, held) ==
    LET risk == position.entryPrice - position.stopPrice
        profit == currentPrice - position.entryPrice
    IN  IF ~position.partialTaken
           /\ RMultipleGe(profit, risk, PartialTPRNum, PartialTPRDen)
        THEN Signal("partial_tp", <<PartialTPPctNum, PartialTPPctDen>>,
                    currentPrice, position.entryPrice)
        ELSE IF currentPrice <= position.stopPrice
        THEN Signal("stop", <<1, 1>>, currentPrice, 0)
        ELSE IF (position.partialTaken \/ position.trailingStopActive)
                /\ ema # 0 /\ currentPrice < ema
        THEN Signal("trailing", <<1, 1>>, currentPrice, 0)
        ELSE IF held >= TimeExitHours * MsPerHour
                /\ RMultipleLt(profit, risk, TimeExitMinRNum, TimeExitMinRDen)
        THEN Signal("time", <<1, 1>>, currentPrice, 0)
        ELSE Signal("none", <<0, 1>>, currentPrice, 0)

\* ExitManager.checkExit; ema is getLatestEMA(candles, trailingEMAPeriod),
\* held is Date.now() - position.entryTime; newStop 0 stands for undefined
CheckExit(position, ema, currentPrice, held) ==
    LET risk == position.entryPrice - position.stopPrice
        profit == currentPrice - position.entryPrice
    IN  IF currentPrice <= position.stopPrice
        THEN Signal("stop", <<1, 1>>, currentPrice, 0)
        ELSE IF ~position.partialTaken
                /\ RMultipleGe(profit, risk, PartialTPRNum, PartialTPRDen)
        THEN Signal("partial_tp", <<PartialTPPctNum, PartialTPPctDen>>,
                    currentPrice, position.entryPrice)
        ELSE IF (position.partialTaken \/ position.trailingStopActive)
                /\ ema # 0 /\ currentPrice < ema
        THEN Signal("trailing", <<1, 1>>, currentPrice, 0)
        ELSE IF held >= TimeExitHours * MsPerHour
                /\ RMultipleLt(profit, risk, TimeExitMinRNum, TimeExitMinRDen)
        THEN Signal("time", <<1, 1>>, currentPrice, 0)
        ELSE Signal("none", <<0, 1>>, currentPrice, 0)

\* updatePosition that keeps the old stop
UpdatePositionKeepStop(position, exitSignal) ==
    IF exitSignal.exitType = "partial_tp"
    THEN [position EXCEPT
            !.partialTaken = TRUE,
            !.trailingStopActive = TRUE,
            !.amount = (position.amount
                        * (exitSignal.percentage[2] - exitSignal.percentage[1]))
                       \div exitSignal.percentage[2]]
    ELSE position

\* ExitManager.updatePosition: a copy, changed for a partial_tp signal only
UpdatePosition(position, exitSignal) ==
    IF exitSignal.exitType = "partial_tp"
    THEN [position EXCEPT
            !.partialTaken = TRUE,
            !.trailingStopActive = TRUE,
            !.stopPrice = IF exitSignal.newStop # 0
                          THEN exitSignal.newStop
                          ELSE position.stopPrice,
            !.amount = (position.amount
                        * (exitSignal.percentage[2] - exitSignal.percentage[1]))
                       \div exitSignal.percentage[2]]
    ELSE position

ExitIdle ==
    /\ exPosition = ExNone
    /\ exPrice = 0
    /\ exEma = 0
    /\ exHeld = 0
    /\ exSignal = ExNone
    /\ exUpdated = ExNone

ExitInit ==
    /\ exPosition \in [entryPrice : ExEntryPrices,
                       amount : ExAmounts,
                       stopPrice : ExStopPrices,
                       entryTime : {0},
                       partialTaken : BOOLEAN,
                       trailingStopActive : BOOLEAN]
    /\ exPrice \in ExPrices
    /\ exEma \in ExEmas
    /\ exHeld \in ExHelds
    /\ exSignal = ExNone
    /\ exUpdated = ExNone

ExitCheck ==
    /\ exSignal = ExNone
    /\ exSignal' = CheckExit(exPosition, exEma, exPrice, exHeld)
    /\ UNCHANGED <<exPosition, exPrice, exEma, exHeld, exUpdated, szVars, ksVars, ksHist, rmVars, rmHist,
                   botVars, mdVars, botHist, extVars>>

ExitUpdate ==
    /\ exSignal # ExNone
    /\ exUpdated = ExNone
    /\ exUpdated' = UpdatePosition(exPosition, exSignal)
    /\ UNCHANGED <<exPosition, exPrice, exEma, exHeld, exSignal, szVars, ksVars, ksHist, rmVars, rmHist,
                   botVars, mdVars, botHist, extVars>>

---------------------------------------------------------------------------
(* KillSwitch (src/src/risk/kill-switch.ts) *)

KillSwitchTriggers ==
    {"drawdown", "oracle_divergence", "manual", "rpc_failure", "system_error"}

NoEvent == [kind |-> "null"]

Event(type) == [kind |-> "event", type |-> type, triggered |-> TRUE]

\* The sentinel file: absent, written by writeTriggerFile with the event, or
\* created by the operator with content of their own
NoFile == [kind |-> "absent"]

FileOf(ev) == [kind |-> "written", type |-> ev.type]

OperatorFile == [kind |-> "operator"]

KS(t, e, f) == [triggered |-> t, triggerEvent |-> e, killSwitchFile |-> f]

\* KillSwitch.trigger with writeTriggerFile: writeFileSync either writes the
\* event or throws, and the throw is caught and logged (writeOk = FALSE)
Trigger(ks, type, writeOk) ==
    KS(TRUE, Event(type),
       IF writeOk THEN FileOf(Event(type)) ELSE ks.killSwitchFile)

\* isTriggered that reads the flag alone
IsTriggeredFlagOnly(ks, writeOk) == [result |-> ks.triggered, ks |-> ks]

\* isTriggered that reads the sentinel and the flag but never latches
IsTriggeredNoLatch(ks, writeOk) ==
    [result |-> (ks.killSwitchFile # NoFile) \/ ks.triggered, ks |-> ks]

\* KillSwitch.isTriggered: its return value and the state it leaves
IsTriggered(ks, writeOk) ==
    IF ks.killSwitchFile # NoFile
    THEN [result |-> TRUE,
          ks |-> IF ~ks.triggered THEN Trigger(ks, "manual", writeOk) ELSE ks]
    ELSE [result |-> ks.triggered, ks |-> ks]

\* reset that clears the latch and leaves the sentinel file in place
ResetKeepFile(ks) == KS(FALSE, NoEvent, ks.killSwitchFile)

\* KillSwitch.reset
Reset(ks) == KS(FALSE, NoEvent, NoFile)

ksNow == KS(triggered, triggerEvent, killSwitchFile)

SetKS(ks) ==
    /\ triggered' = ks.triggered
    /\ triggerEvent' = ks.triggerEvent
    /\ killSwitchFile' = ks.killSwitchFile

KSIdle ==
    /\ triggered = FALSE
    /\ triggerEvent = NoEvent
    /\ killSwitchFile = NoFile
    /\ ksCall = [op |-> "none"]
    /\ ksObserved = FALSE
    /\ ksTrig = "no"

\* A fresh KillSwitch; the sentinel may be there from before
KSInit ==
    /\ triggered = FALSE
    /\ triggerEvent = NoEvent
    /\ killSwitchFile \in {NoFile, OperatorFile}
    /\ ksCall = [op |-> "none"]
    /\ ksObserved = FALSE
    /\ ksTrig = "no"

KSOthers == UNCHANGED <<szVars, exVars, rmVars, rmHist, botVars, mdVars, botHist, extVars>>

KSTrigger ==
    \E type \in KillSwitchTriggers, writeOk \in BOOLEAN :
        /\ SetKS(Trigger(ksNow, type, writeOk))
        /\ ksCall' = [op |-> "trigger"]
        /\ ksTrig' = "yes"
        /\ UNCHANGED ksObserved
        /\ KSOthers

KSIsTriggered ==
    \E writeOk \in BOOLEAN :
        LET r == IsTriggered(ksNow, writeOk)
        IN  /\ SetKS(r.ks)
            /\ ksCall' = [op |-> "isTriggered", result |-> r.result,
                          observedBefore |-> ksObserved]
            /\ ksObserved' = (ksObserved \/ r.result)
            /\ ksTrig' = IF r.ks # ksNow THEN "yes" ELSE ksTrig
            /\ KSOthers

KSReset ==
    /\ SetKS(Reset(ksNow))
    /\ ksCall' = [op |-> "reset"]
    /\ ksObserved' = FALSE
    /\ ksTrig' = "no"
    /\ KSOthers

\* The process restarts: new KillSwitch(config) starts with the flag clear
\* and no event; the sentinel file is as the old process left it
KSRestart ==
    /\ SetKS(KS(FALSE, NoEvent, killSwitchFile))
    /\ ksCall' = [op |-> "restart"]
    /\ ksObserved' = FALSE
    /\ ksTrig' = IF ksTrig = "no" THEN "no" ELSE "restarted"
    /\ KSOthers

\* The operator creates the sentinel file (touch STOP_AND_FLATTEN)
OperatorCreatesFile ==
    /\ killSwitchFile = NoFile
    /\ killSwitchFile' = OperatorFile
    /\ ksCall' = [op |-> "external"]
    /\ UNCHANGED <<triggered, triggerEvent, ksObserved, ksTrig>>
    /\ KSOthers

\* The sentinel file is removed from outside the process
OperatorRemovesFile ==
    /\ killSwitchFile # NoFile
    /\ killSwitchFile' = NoFile
    /\ ksCall' = [op |-> "external"]
    /\ UNCHANGED <<triggered, triggerEvent, ksObserved, ksTrig>>
    /\ KSOthers

---------------------------------------------------------------------------
(* RiskManager (src/src/risk/risk-manager.ts) *)

\* config.risk.maxDrawdownPercent = 0.20 = MaxDrawdownNum / MaxDrawdownDen
MaxDrawdownNum == 20

MaxDrawdownDen == 100

\* startupGraceMs = 60 * 1000
startupGraceMs == 60000

\* startedAt = Date.now() at construction: the clock starts there
startedAt == 0

\* The clock advances in steps of ClockStepMs up to MaxNowMs
ClockStepMs == 30000

MaxNowMs == 90000

InitialEquities == {1000}

\* Equity values passed to updateEquity: 960 is exactly 20% below 1200
Equities == {0, 790, 960, 1000, 1150, 1200}

RM(eq, hwm, kill) ==
    [currentEquity |-> eq, highWaterMark |-> hwm, killSwitchTriggered |-> kill]

\* updateEquity that drops the new value
UpdateEquityStale(rm, newEquity) == rm

\* updateEquity that follows the equity down as well as up
UpdateEquityFollow(rm, newEquity) ==
    RM(newEquity, newEquity, rm.killSwitchTriggered)

\* RiskManager.updateEquity
UpdateEquity(rm, newEquity) ==
    RM(newEquity,
       IF newEquity > rm.highWaterMark THEN newEquity ELSE rm.highWaterMark,
       rm.killSwitchTriggered)

\* drawdown = (highWaterMark - currentEquity) / highWaterMark as a double,
\* compared: drawdown >= n / d.  A zero high-water-mark gives +Infinity,
\* -Infinity or NaN.
DrawdownGe(rm, n, d) ==
    LET diff == rm.highWaterMark - rm.currentEquity
    IN  IF rm.highWaterMark > 0 THEN diff * d >= n * rm.highWaterMark
        ELSE IF rm.highWaterMark < 0 THEN diff * d <= n * rm.highWaterMark
        ELSE diff > 0

\* checkDrawdown that fires only when the drawdown exceeds the maximum
CheckDrawdownStrict(rm, enabled) ==
    IF /\ enabled
       /\ DrawdownGe(rm, MaxDrawdownNum, MaxDrawdownDen)
       /\ (rm.highWaterMark - rm.currentEquity) * MaxDrawdownDen
              # MaxDrawdownNum * rm.highWaterMark
    THEN [rm EXCEPT !.killSwitchTriggered = TRUE]
    ELSE rm

\* checkDrawdown whose flag follows the drawdown down as well as up
CheckDrawdownUnlatch(rm, enabled) ==
    [rm EXCEPT !.killSwitchTriggered =
                   enabled /\ DrawdownGe(rm, MaxDrawdownNum, MaxDrawdownDen)]

\* RiskManager.checkDrawdown: the state it leaves (the flag is only ever set)
CheckDrawdown(rm, enabled) ==
    IF enabled /\ DrawdownGe(rm, MaxDrawdownNum, MaxDrawdownDen)
    THEN [rm EXCEPT !.killSwitchTriggered = TRUE]
    ELSE rm

\* canTrade with the kill-switch test ahead of the startup grace test
CanTradeNoGrace(rm, enabled, t) ==
    LET after == CheckDrawdown(rm, enabled)
    IN  [canTrade |-> ~after.killSwitchTriggered, rm |-> after]

\* RiskManager.canTrade at time t: RiskStatus.canTrade and the state it leaves
CanTrade(rm, enabled, t) ==
    LET after == CheckDrawdown(rm, enabled)
    IN  IF t - startedAt < startupGraceMs
        THEN [canTrade |-> TRUE, rm |-> after]
        ELSE IF after.killSwitchTriggered
        THEN [canTrade |-> FALSE, rm |-> after]
        ELSE [canTrade |-> TRUE, rm |-> after]

\* RiskManager.reset
RMResetOp(rm) == RM(rm.currentEquity, rm.currentEquity, FALSE)

rmNow == RM(currentEquity, highWaterMark, killSwitchTriggered)

SetRM(rm) ==
    /\ currentEquity' = rm.currentEquity
    /\ highWaterMark' = rm.highWaterMark
    /\ killSwitchTriggered' = rm.killSwitchTriggered

Max(a, b) == IF a >= b THEN a ELSE b

RMIdle ==
    /\ currentEquity = 0
    /\ highWaterMark = 0
    /\ killSwitchTriggered = FALSE
    /\ enableKillSwitch = TRUE
    /\ now = 0
    /\ rmCall = [op |-> "none"]
    /\ rmMaxSeen = 0
    /\ rmResetSeen = FALSE

\* new RiskManager(config, initialEquity)
RMInit ==
    /\ currentEquity \in InitialEquities
    /\ highWaterMark = currentEquity
    /\ killSwitchTriggered = FALSE
    /\ enableKillSwitch \in BOOLEAN
    /\ now = startedAt
    /\ rmCall = [op |-> "none"]
    /\ rmMaxSeen = currentEquity
    /\ rmResetSeen = FALSE

RMOthers == UNCHANGED <<szVars, exVars, ksVars, ksHist, botVars, mdVars, botHist, extVars>>

RMUpdateEquity ==
    \E newEquity \in Equities :
        /\ SetRM(UpdateEquity(rmNow, newEquity))
        /\ rmCall' = [op |-> "updateEquity", hwmBefore |-> highWaterMark]
        /\ rmMaxSeen' = Max(rmMaxSeen, newEquity)
        /\ UNCHANGED <<enableKillSwitch, now, rmResetSeen>>
        /\ RMOthers

RMCheckDrawdown ==
    /\ SetRM(CheckDrawdown(rmNow, enableKillSwitch))
    /\ rmCall' = [op |-> "checkDrawdown"]
    /\ UNCHANGED <<enableKillSwitch, now, rmMaxSeen, rmResetSeen>>
    /\ RMOthers

RMCanTrade ==
    LET r == CanTrade(rmNow, enableKillSwitch, now)
    IN  /\ SetRM(r.rm)
        /\ rmCall' = [op |-> "canTrade", canTrade |-> r.canTrade, at |-> now]
        /\ UNCHANGED <<enableKillSwitch, now, rmMaxSeen, rmResetSeen>>
        /\ RMOthers

RMReset ==
    /\ SetRM(RMResetOp(rmNow))
    /\ rmCall' = [op |-> "reset"]
    /\ rmResetSeen' = TRUE
    /\ UNCHANGED <<enableKillSwitch, now, rmMaxSeen>>
    /\ RMOthers

\* Time passes
ClockTick ==
    /\ now + ClockStepMs <= MaxNowMs
    /\ now' = now + ClockStepMs
    /\ UNCHANGED <<currentEquity, highWaterMark, killSwitchTriggered,
                   enableKillSwitch, rmHist>>
    /\ RMOthers

---------------------------------------------------------------------------
(* RegimeFilter (src/src/strategy/regime-filter.ts) *)
(* An indicator value is a number or null.                                 *)

Null == [def |-> FALSE, v |-> 0]

Val(v) == [def |-> TRUE, v |-> v]

\* !x of a number | null: null and 0 are falsy
Falsy(x) == ~x.def \/ x.v = 0

\* config.regime.adxThreshold
adxThreshold == 20

\* Math.min(adx / AdxFull, 1)
AdxFull == 40

\* candles.length (0: none), livePrice, the last candle's close
RgCounts == {0, 250}

RgLivePrices == {Null, Val(105)}

RgCloses == {97, 103, 105}

\* getLatestEMA(candles, emaFast), getLatestEMA(candles, emaSlow)
RgEmas == {Null, Val(0), Val(98), Val(103)}

\* getLatestADX(candles, adxPeriod)
RgAdxs == {Null, Val(0), Val(15), Val(20), Val(24), Val(50)}

RgNone == [outcome |-> "none"]

Analysis(regime, confidence) ==
    [outcome |-> "ok", regime |-> regime,
     confidence |-> RatMax(<<0, 1>>, RatMin(<<1, 1>>, confidence))]

\* RegimeFilter.analyze(candles, livePrice), the indicators being those of
\* the candles
Analyze(count, livePrice, close, ema50, ema200, adx) ==
    LET currentPrice == IF livePrice.def THEN livePrice.v ELSE close
    IN  IF count = 0 THEN [outcome |-> "throw"]
        ELSE IF Falsy(ema50) \/ Falsy(ema200) \/ Falsy(adx)
        THEN [outcome |-> "ok", regime |-> "SIDEWAYS", confidence |-> <<0, 1>>]
        ELSE IF currentPrice > ema50.v /\ ema50.v > ema200.v /\ adx.v > adxThreshold
        THEN Analysis("BULL",
                      RatAdd(RatMul(<<ema50.v - ema200.v, ema200.v>>, <<1, 2>>),
                             RatMul(RatMin(<<adx.v, AdxFull>>, <<1, 1>>), <<1, 2>>)))
        ELSE IF currentPrice < ema50.v
        THEN Analysis("BEAR", RatMin(<<ema50.v - currentPrice, ema50.v>>, <<1, 1>>))
        ELSE IF adx.v < adxThreshold
        THEN Analysis("SIDEWAYS", <<adxThreshold - adx.v, adxThreshold>>)
        ELSE Analysis("SIDEWAYS", <<1, 2>>)

\* canTrade that lets every regime but BEAR through
RegimeCanTradeNotBear(regime) == regime # "BEAR"

\* RegimeFilter.canTrade
RegimeCanTrade(regime) == regime = "BULL"

RGIdle ==
    /\ rgInput = [count |-> 0]
    /\ rgResult = RgNone

\* The arguments of one analyze call
RGInit ==
    /\ rgInput \in [count : RgCounts, livePrice : RgLivePrices, close : RgCloses,
                    ema50 : RgEmas, ema200 : RgEmas, adx : RgAdxs]
    /\ rgResult = RgNone

RGAnalyze ==
    /\ rgResult = RgNone
    /\ rgResult' = Analyze(rgInput.count, rgInput.livePrice, rgInput.close,
                           rgInput.ema50, rgInput.ema200, rgInput.adx)
    /\ UNCHANGED <<rgInput, szVars, exVars, ksVars, ksHist, rmVars, rmHist, botVars,
                   mdVars, botHist, pfVars, cbVars, enVars, sdVars, hbVars, trVars, upVars>>

---------------------------------------------------------------------------
(* EntrySignals (src/unnamed/part_003) and the indicators it calls         *)
(* (src/src/strategy/indicators.ts)                                        *)

\* config.entry and config.liquidity
donchianPeriod == 20

rsiPeriod == 14

rsiLow == 50

rsiHigh == 75

maxSpread == <<2, 1000>>

minLiquidityDepth == 5000

maxPriceImpact == <<1, 100>>

\* A candle, as far as checkEntry reads it
Bar(high, close) == [high |-> high, close |-> close]

\* candles.length
EnCounts == {0, 10, 19, 21}

\* The high of the candles before the last one (their close is one below)
EnHighs == {104, 106}

\* The last candle
EnLast == {Bar(105, 105), Bar(105, 103), Bar(107, 105)}

\* RSI.calculate's last value and the one before it
EnRsis == {0, 49, 50, 64, 75, 76}

EnRsiPrevs == {61, 75}

\* liquidity.spread, depthUSD, estimatedImpact
EnSpreads == {<<15, 10000>>, <<2, 1000>>, <<3, 1000>>}

EnDepths == {4999, 5000}

EnImpacts == {<<1, 100>>, <<2, 100>>}

\* n candles, the last one being last
EnCandles(n, h, last) ==
    [i \in 1 .. n |-> IF i = n THEN last ELSE Bar(h, h - 1)]

\* Math.max(...candles.slice(from - 1, to).map(c => c.high))
HighestHigh(cs, from, to) ==
    CHOOSE m \in {cs[i].high : i \in from .. to} :
        \A i \in from .. to : cs[i].high <= m

\* calculateDonchianChannel(candles, period).high, or null
CalculateDonchianChannel(cs, period) ==
    IF Len(cs) < period THEN Null
    ELSE Val(HighestHigh(cs, Len(cs) - period + 1, Len(cs)))

\* isRSIRising: the last RSI value against the one before it
IsRSIRising(rsi, rsiPrev) ==
    IF ~rsi.def \/ ~rsiPrev.def THEN FALSE ELSE rsi.v > rsiPrev.v

EnNone == [outcome |-> "none"]

EntrySignal(shouldEnter, confidence, entryPrice) ==
    [outcome |-> "ok", shouldEnter |-> shouldEnter,
     confidence |-> RatMax(<<0, 1>>, RatMin(<<1, 1>>, confidence)),
     entryPrice |-> entryPrice]

\* One check of checkEntry: what it makes of shouldEnter and confidence
Check(state, fails, factor) ==
    IF fails
    THEN [shouldEnter |-> FALSE, confidence |-> RatMul(state.confidence, factor)]
    ELSE state

\* EntrySignals.checkEntry(candles, liquidity); rsi and rsiPrev are the last
\* two values RSI.calculate gives for the candles
EntrySignalsCheckEntry(cs, rsi, rsiPrev, liquidity) ==
    IF Len(cs) = 0 THEN EntrySignal(FALSE, <<0, 1>>, 0)
    ELSE
    LET currentPrice == cs[Len(cs)].close
        donchian == CalculateDonchianChannel(cs, donchianPeriod)
        rsiIsRising == IsRSIRising(rsi, rsiPrev)
        start == [shouldEnter |-> TRUE, confidence |-> <<1, 1>>]
        check1 ==
            IF ~donchian.def
            THEN Check(start, TRUE, <<0, 1>>)
            ELSE IF currentPrice <= donchian.v
            THEN Check(start, TRUE, <<1, 2>>)
            ELSE [start EXCEPT !.confidence =
                     RatMul(@, RatMin(<<1, 1>>,
                                      RatAdd(<<7, 10>>,
                                             <<(currentPrice - donchian.v) * 100,
                                               donchian.v>>)))]
        check2 ==
            IF Falsy(rsi)
            THEN Check(check1, TRUE, <<0, 1>>)
            ELSE IF rsi.v < rsiLow THEN Check(check1, TRUE, <<3, 10>>)
            ELSE IF rsi.v > rsiHigh THEN Check(check1, TRUE, <<3, 10>>)
            ELSE Check(check1, ~rsiIsRising, <<1, 2>>)
        spreadChecked ==
            Check(check2, RatLt(maxSpread, liquidity.spread), <<1, 5>>)
        depthChecked ==
            Check(spreadChecked, liquidity.depthUSD < minLiquidityDepth, <<1, 5>>)
        check3 ==
            Check(depthChecked, RatLt(maxPriceImpact, liquidity.estimatedImpact),
                  <<1, 5>>)
    IN  EntrySignal(check3.shouldEnter, check3.confidence, currentPrice)

ENIdle ==
    /\ enInput = [count |-> 0]
    /\ enResult = EnNone

\* The arguments of one checkEntry call: candles as the candle builder
\* makes them (close <= high), the RSI values the candles' number allows
ENInit ==
    /\ \E n \in EnCounts, h \in EnHighs, last \in EnLast,
          rsi \in {Null} \cup {Val(r) : r \in EnRsis},
          rsiPrev \in {Null} \cup {Val(r) : r \in EnRsiPrevs},
          spread \in EnSpreads, depthUSD \in EnDepths, impact \in EnImpacts :
        /\ rsi.def <=> n > rsiPeriod
        /\ rsiPrev.def <=> n > rsiPeriod + 1
        /\ enInput = [count |-> n, candles |-> EnCandles(n, h, last),
                      rsi |-> rsi, rsiPrev |-> rsiPrev,
                      liquidity |-> [spread |-> spread, depthUSD |-> depthUSD,
                                     estimatedImpact |-> impact]]
    /\ enResult = EnNone

ENCheckEntry ==
    /\ enResult = EnNone
    /\ enResult' = EntrySignalsCheckEntry(enInput.candles, enInput.rsi,
                                          enInput.rsiPrev, enInput.liquidity)
    /\ UNCHANGED <<enInput, szVars, exVars, ksVars, ksHist, rmVars, rmHist, botVars,
                   mdVars, botHist, pfVars, cbVars, rgVars, sdVars, hbVars, trVars, upVars>>

---------------------------------------------------------------------------
(* IronChainBot: the control loop (src/src/core/bot.ts) *)
(* Prices are integers in dollars.  A pc names the await the loop is       *)
(* suspended at; each action runs from one await to the next.             *)

NoPos == [kind |-> "none"]

\* regimeAnalysis.regime: what analyze returns for the 4h candles
Regimes ==
    {Analyze(250, Null, c, f, s, a).regime :
        c \in RgCloses, f \in RgEmas, s \in RgEmas, a \in RgAdxs}

ErrorTriggers == {"rpc_failure", "system_error"}

Outcomes == {"success", "failure", "throw"}

\* entrySignal.entryPrice and the execution price of the buy
BotEntryPrices == {105}

\* calculateInitialStop's result: entryPrice - atr * stopLossATRMultiplier,
\* which is the entry price itself when the multiplier is configured as 0
BotStops == {102, 104, 105}

\* result.amount of a buy
BotAmounts == {4}

\* Prices getCurrentPrice returns while a position is open
BotPrices == {102, 105, 110}

\* getLatestEMA over the 15m candles (0: null)
BotEmas == {0, 107}

\* The canTrade() gate of runCycle not evaluated / evaluated on an equity
NoGate == [def |-> FALSE, v |-> 0, canTrade |-> FALSE]

Gate(equity, canTrade) == [def |-> TRUE, v |-> equity, canTrade |-> canTrade]

\* The trade checkEntry sized after an entry signal: none / its parameters
NoTrade ==
    [def |-> FALSE, entryPrice |-> 0, stopPrice |-> 0, equity |-> 0,
     forceTest |-> FALSE]

Trade(entryPrice, stopPrice, equity, forceTest) ==
    [def |-> TRUE, entryPrice |-> entryPrice, stopPrice |-> stopPrice,
     equity |-> equity, forceTest |-> forceTest]

\* What a cycle has done so far: equity is the value it passed to
\* riskManager.updateEquity, gate the evaluation of its canTrade() gate,
\* trade the trade it sized
NewCycle ==
    [killAtStart |-> FALSE, breach |-> "none", regime |-> "none", flattened |-> FALSE,
     buyResult |-> "none", sellResult |-> "none", signal |-> ExNone,
     stopPrice |-> 0, equity |-> Null, gate |-> NoGate, trade |-> NoTrade]

\* getCurrentPrice() without force returns a price unless the feed fails,
\* lastTickPrice is null and there is no 15m candle: then it throws
PriceAvailable(feedOk) == feedOk \/ lastTickSet \/ data15 # 0

\* closeAllPositions that returns without selling
CloseAllPositionsSkip(position) == "sleep"

\* closeAllPositions: with a position it awaits the price and the sell,
\* without one it returns at once (the caller's cycle then ends)
CloseAllPositions(position) ==
    IF position # NoPos THEN "closePrice" ELSE "sleep"

\* isTriggered that trusts the sentinel file alone
IsTriggeredFileOnly(ks, writeOk) ==
    [result |-> ks.killSwitchFile # NoFile, ks |-> ks]

\* The kill-switch check that opens runCycle (bot.ts:181)
CycleKillCheck(ks, writeOk) == IsTriggered(ks, writeOk)

\* handleError: the catch of start() latches the kill switch; the loop goes
\* straight to its next iteration
HandleError(type, writeOk) ==
    /\ SetKS(Trigger(ksNow, type, writeOk))
    /\ pc' = "loop"

BotFrame == UNCHANGED <<szVars, exVars, ksHist, rmHist, enableKillSwitch, now, extVars>>

BotIdle ==
    /\ isRunning = FALSE
    /\ currentPosition = NoPos
    /\ pc = "created"
    /\ lastTickSet = FALSE
    /\ data15 = 0
    /\ data4h = FALSE
    /\ event = "none"
    /\ cycle = NewCycle

\* The bot as startup() returns it: marketData.initialize() has run its
\* bootstraps and one best-effort update
BotInit ==
    /\ isRunning = FALSE
    /\ currentPosition = NoPos
    /\ pc = "created"
    /\ lastTickSet \in BOOLEAN
    /\ data15 \in 0 .. 2
    /\ lastTickSet => data15 >= 1
    /\ data4h \in BOOLEAN
    /\ event = "none"
    /\ cycle = NewCycle

\* start(): sets the flag and enters the loop
Start ==
    /\ pc = "created"
    /\ isRunning' = TRUE
    /\ pc' = "loop"
    /\ event' = "none"
    /\ UNCHANGED <<currentPosition, mdVars, cycle, ksVars,
                   currentEquity, highWaterMark, killSwitchTriggered>>
    /\ BotFrame

\* while (this.isRunning) is false: start() returns
LoopExit ==
    /\ pc = "loop"
    /\ ~isRunning
    /\ pc' = "done"
    /\ event' = "none"
    /\ UNCHANGED <<isRunning, currentPosition, mdVars, cycle, ksVars,
                   currentEquity, highWaterMark, killSwitchTriggered>>
    /\ BotFrame

\* runCycle up to its first await: the kill-switch check and, when it is
\* triggered, shutdown() up to closeAllPositions
RunCycle ==
    /\ pc = "loop"
    /\ isRunning
    /\ \E writeOk \in BOOLEAN :
        LET r == CycleKillCheck(ksNow, writeOk)
        IN  /\ SetKS(r.ks)
            /\ cycle' = [NewCycle EXCEPT !.killAtStart = r.result]
            /\ isRunning' = ~r.result
            /\ pc' = IF r.result
                     THEN CloseAllPositions(currentPosition)
                     ELSE "update"
    /\ event' = "none"
    /\ UNCHANGED <<currentPosition, mdVars,
                   currentEquity, highWaterMark, killSwitchTriggered>>
    /\ BotFrame

\* await marketData.update(): never throws; with a price (fetched, or the
\* last tick, or a candle close) it feeds one tick to the candle builder
MarketDataUpdate ==
    /\ pc = "update"
    /\ \E fetched \in BOOLEAN, d15 \in 0 .. 2, d4 \in BOOLEAN :
        IF PriceAvailable(fetched)
        THEN /\ d15 >= Max(data15, 1)
             /\ data4h => d4
             /\ lastTickSet' = TRUE
             /\ data15' = d15
             /\ data4h' = d4
        ELSE /\ d15 = data15
             /\ d4 = data4h
             /\ UNCHANGED mdVars
    /\ pc' = "equity"
    /\ event' = "none"
    /\ UNCHANGED <<isRunning, currentPosition, cycle, ksVars,
                   currentEquity, highWaterMark, killSwitchTriggered>>
    /\ BotFrame

\* runCycle that calls checkEntry whether or not a position is open
AfterGateAlwaysEntry(regime) ==
    IF ~data4h THEN "sleep"
    ELSE IF ~RegimeCanTrade(regime) THEN "sleep"
    ELSE IF data15 < 2 THEN "sleep" ELSE "entry"

\* Where runCycle goes once the risk gate has passed: the regime filter,
\* then checkEntry without a position, checkExit with one
AfterGate(regime) ==
    IF ~data4h THEN "sleep"
    ELSE IF ~RegimeCanTrade(regime) THEN "sleep"
    ELSE IF currentPosition = NoPos
    THEN (IF data15 < 2 THEN "sleep" ELSE "entry")
    ELSE "exit"

\* await updateEquity(), the canTrade() gate and the regime filter.  A
\* throw of getCurrentPrice or getBalance ends the cycle in handleError.
UpdateEquityAndGate ==
    /\ pc = "equity"
    /\ \E feedOk \in BOOLEAN, balanceOk \in BOOLEAN, writeOk \in BOOLEAN,
          newEquity \in Equities, regime \in Regimes, errType \in ErrorTriggers :
        IF ~PriceAvailable(feedOk) \/ ~balanceOk
        THEN /\ HandleError(errType, writeOk)
             /\ UNCHANGED <<currentEquity, highWaterMark, killSwitchTriggered, cycle>>
        ELSE LET rm1 == UpdateEquity(rmNow, newEquity)
                 logged == CanTrade(rm1, enableKillSwitch, now)
                 riskStatus == CanTrade(logged.rm, enableKillSwitch, now)
                 breach == /\ enableKillSwitch
                           /\ ~killSwitchTriggered
                           /\ DrawdownGe(rm1, MaxDrawdownNum, MaxDrawdownDen)
             IN  /\ SetRM(riskStatus.rm)
                 /\ cycle' = [cycle EXCEPT
                                 !.breach = IF ~breach THEN "none"
                                            ELSE IF now - startedAt < startupGraceMs
                                            THEN "grace" ELSE "live",
                                 !.regime = IF riskStatus.canTrade /\ data4h
                                            THEN regime ELSE "none",
                                 !.equity = Val(newEquity),
                                 !.gate = Gate(logged.rm.currentEquity,
                                               riskStatus.canTrade)]
                 /\ IF ~riskStatus.canTrade
                    THEN IF riskStatus.rm.killSwitchTriggered
                         THEN /\ SetKS(Trigger(ksNow, "drawdown", writeOk))
                              /\ pc' = CloseAllPositions(currentPosition)
                         ELSE /\ UNCHANGED ksVars
                              /\ pc' = "sleep"
                    ELSE /\ UNCHANGED ksVars
                         /\ pc' = AfterGate(regime)
    /\ event' = "none"
    /\ UNCHANGED <<isRunning, currentPosition, mdVars>>
    /\ BotFrame

\* checkEntry from its awaits (price, balance, liquidity) to the call of
\* executor.buy in executeEntry.  A throw of positionSizer.calculate ends
\* the cycle in handleError like any other exception.
CheckEntry ==
    /\ pc = "entry"
    /\ \E feedOk \in BOOLEAN, balanceOk \in BOOLEAN, writeOk \in BOOLEAN,
          shouldEnter \in BOOLEAN, forceTest \in BOOLEAN, equity \in Equities,
          entryPrice \in BotEntryPrices, stopPrice \in BotStops,
          errType \in ErrorTriggers :
        IF ~PriceAvailable(feedOk) \/ ~balanceOk
        THEN /\ HandleError(errType, writeOk)
             /\ event' = "none"
             /\ UNCHANGED cycle
        ELSE IF ~shouldEnter
        THEN /\ UNCHANGED <<ksVars, cycle>>
             /\ event' = "none"
             /\ pc' = IF currentPosition # NoPos THEN "exit" ELSE "sleep"
        ELSE LET positionSize ==
                     Calculate([equity |-> equity, entryPrice |-> entryPrice,
                                stopPrice |-> stopPrice,
                                riskPercent |-> RiskPerTrade,
                                maxPositionPercent |-> MaxPositionSize])
                 trade == Trade(entryPrice, stopPrice, equity, forceTest)
             IN  IF positionSize.kind = "error"
                 THEN /\ HandleError("system_error", writeOk)
                      /\ event' = "none"
                      /\ cycle' = [cycle EXCEPT !.trade = trade]
                 ELSE /\ UNCHANGED ksVars
                      /\ IF ValidateSize(positionSize, equity, forceTest)
                         THEN /\ event' = "buy"
                              /\ cycle' = [cycle EXCEPT !.stopPrice = stopPrice,
                                                        !.trade = trade]
                              /\ pc' = "buy"
                         ELSE /\ event' = "none"
                              /\ cycle' = [cycle EXCEPT !.trade = trade]
                              /\ pc' = IF currentPosition # NoPos
                                       THEN "exit" ELSE "sleep"
    /\ UNCHANGED <<isRunning, currentPosition, mdVars,
                   currentEquity, highWaterMark, killSwitchTriggered>>
    /\ BotFrame

\* How many positions a run that follows RiskManager.openPositions opens
MaxOpenPositions == 1

\* RiskManager.addPosition
AddPosition(positions, position) == Append(positions, position)

\* executor.buy returns: on success the position is created and handed to
\* riskManager.addPosition, and runCycle goes on to checkExit.  With
\* tracked = FALSE the list of the risk manager, which the loop never
\* reads, is not followed.
ExecuteEntryReturns(tracked) ==
    /\ pc = "buy"
    /\ tracked => Len(openPositions) < MaxOpenPositions
    /\ \E outcome \in Outcomes, price \in BotEntryPrices, amount \in BotAmounts :
        LET position == [entryPrice |-> price, amount |-> amount,
                         stopPrice |-> cycle.stopPrice, entryTime |-> now,
                         partialTaken |-> FALSE, trailingStopActive |-> FALSE]
        IN  /\ cycle' = [cycle EXCEPT !.buyResult = outcome]
            /\ IF outcome = "success"
               THEN /\ currentPosition' = position
                    /\ openPositions' = IF tracked
                                        THEN AddPosition(openPositions, position)
                                        ELSE openPositions
                    /\ pc' = "exit"
               ELSE /\ UNCHANGED <<currentPosition, openPositions>>
                    /\ pc' = IF currentPosition # NoPos THEN "exit" ELSE "sleep"
    /\ event' = "none"
    /\ UNCHANGED <<isRunning, mdVars, ksVars,
                   currentEquity, highWaterMark, killSwitchTriggered>>
    /\ UNCHANGED <<szVars, exVars, ksHist, rmHist, enableKillSwitch, now, pfVars,
                   cbVars, rgVars, enVars, sdVars, hbVars, upVars>>

BuyReturns == ExecuteEntryReturns(FALSE)

\* The same with the risk manager's list followed
BuyReturnsTracked == ExecuteEntryReturns(TRUE)

\* checkExit from its price await to the call of executor.sell in
\* executeExit
BotCheckExit ==
    /\ pc = "exit"
    /\ \E feedOk \in BOOLEAN, writeOk \in BOOLEAN, currentPrice \in BotPrices,
          ema \in BotEmas, errType \in ErrorTriggers :
        IF currentPosition = NoPos
        THEN /\ pc' = "sleep"
             /\ event' = "none"
             /\ UNCHANGED <<cycle, ksVars>>
        ELSE IF ~PriceAvailable(feedOk)
        THEN /\ HandleError(errType, writeOk)
             /\ event' = "none"
             /\ UNCHANGED cycle
        ELSE LET exitSignal == CheckExit(currentPosition, ema, currentPrice,
                                         now - currentPosition.entryTime)
             IN  /\ UNCHANGED ksVars
                 /\ IF exitSignal.shouldExit
                    THEN /\ event' = "sell"
                         /\ cycle' = [cycle EXCEPT !.signal = exitSignal]
                         /\ pc' = "sell"
                    ELSE /\ event' = "none"
                         /\ UNCHANGED cycle
                         /\ pc' = "sleep"
    /\ UNCHANGED <<isRunning, currentPosition, mdVars,
                   currentEquity, highWaterMark, killSwitchTriggered>>
    /\ BotFrame

\* executor.sell returns to executeExit and checkExit: whatever the outcome,
\* a partial exit updates the position and a full exit clears it
SellReturns ==
    /\ pc = "sell"
    /\ \E outcome \in Outcomes :
        /\ cycle' = [cycle EXCEPT !.sellResult = outcome]
        /\ currentPosition' =
               IF RatLt(cycle.signal.percentage, <<1, 1>>)
               THEN UpdatePosition(currentPosition, cycle.signal)
               ELSE NoPos
    /\ pc' = "sleep"
    /\ event' = "none"
    /\ UNCHANGED <<isRunning, mdVars, ksVars,
                   currentEquity, highWaterMark, killSwitchTriggered>>
    /\ BotFrame

\* closeAllPositions: the price arrives, executeExit('kill_switch', 1.0)
\* calls executor.sell; when the position was cleared during the await,
\* executeExit returns at once and the cycle ends
ClosePrice ==
    /\ pc = "closePrice"
    /\ \E feedOk \in BOOLEAN, writeOk \in BOOLEAN, errType \in ErrorTriggers :
        IF ~PriceAvailable(feedOk)
        THEN /\ HandleError(errType, writeOk)
             /\ event' = "none"
             /\ UNCHANGED cycle
        ELSE IF currentPosition = NoPos
        THEN /\ UNCHANGED ksVars
             /\ event' = "none"
             /\ cycle' = [cycle EXCEPT !.flattened = TRUE]
             /\ pc' = "sleep"
        ELSE /\ UNCHANGED <<ksVars, cycle>>
             /\ event' = "sell"
             /\ pc' = "closeSell"
    /\ UNCHANGED <<isRunning, currentPosition, mdVars,
                   currentEquity, highWaterMark, killSwitchTriggered>>
    /\ BotFrame

\* The position that is kept only when its sell succeeded
ClosedPositionIfSold(position, outcome) ==
    IF outcome = "success" THEN NoPos ELSE position

\* closeAllPositions after executeExit: this.currentPosition = null
ClosedPosition(position, outcome) == NoPos

\* executor.sell returns to closeAllPositions, which clears the position
\* and returns (through shutdown, or to runCycle): the cycle ends
CloseSell ==
    /\ pc = "closeSell"
    /\ \E outcome \in Outcomes :
        /\ cycle' = [cycle EXCEPT !.sellResult = outcome, !.flattened = TRUE]
        /\ currentPosition' = ClosedPosition(currentPosition, outcome)
    /\ pc' = "sleep"
    /\ event' = "none"
    /\ UNCHANGED <<isRunning, mdVars, ksVars,
                   currentEquity, highWaterMark, killSwitchTriggered>>
    /\ BotFrame

\* await sleep(checkInterval) ends
Sleep ==
    /\ pc = "sleep"
    /\ pc' = "loop"
    /\ event' = "none"
    /\ UNCHANGED <<isRunning, currentPosition, mdVars, cycle, ksVars,
                   currentEquity, highWaterMark, killSwitchTriggered>>
    /\ BotFrame

---------------------------------------------------------------------------
(* PriceFeed (src/src/data/price-feed.ts, the class of lines 206-481) *)
(* A price is a double: a rational or NaN.                                 *)

Num(n, d) == [k |-> "num", v |-> <<n, d>>]

NaN == [k |-> "nan", v |-> <<0, 1>>]

\* cacheTTL = 30 * 1000, config.timing.priceCacheTTL
cacheTTL == 30000

\* isPriceReasonable's bounds: 0.001 and 1_000_000
MinReasonableDen == 1000

MaxReasonable == 1000000

\* PYTH_MIN_PRICE = 0.01 = 1 / PythMinDen, PYTH_MAX_PRICE = 10_000
PythMinDen == 100

PythMax == 10000

\* isPriceReasonable without its upper bound
IsPriceReasonableNoMax(price) ==
    /\ price.k = "num"
    /\ RatLt(<<0, 1>>, price.v)
    /\ ~RatLt(price.v, <<1, MinReasonableDen>>)

\* PriceFeed.isPriceReasonable
IsPriceReasonable(price) ==
    IF price.k # "num" \/ RatLe(price.v, <<0, 1>>) THEN FALSE
    ELSE IF RatLt(price.v, <<1, MinReasonableDen>>) THEN FALSE
    ELSE IF RatLt(<<MaxReasonable, 1>>, price.v) THEN FALSE
    ELSE TRUE

NoQuote == [kind |-> "null", price |-> NaN, source |-> "none"]

Quote(price, source) == [kind |-> "quote", price |-> price, source |-> source]

Thrown == [kind |-> "throw", price |-> NaN, source |-> "none"]

\* getBinancePrice: a quote with a finite positive price, or it throws
BinancePrices == {Num(150, 1), Num(1000001, 1)}

BinanceOutcomes == {Thrown} \cup {Quote(p, "binance") : p \in BinancePrices}

\* getCoinGeckoPriceWithRetry: a quote whose price is a non-zero number, or
\* it throws
CoinGeckoPrices == {Num(-5, 1), Num(1000000, 1)}

CoinGeckoOutcomes == {Thrown} \cup {Quote(p, "coingecko") : p \in CoinGeckoPrices}

\* getJupiterPrice: a quote with whatever number the response holds, or it
\* throws
JupiterPrices == {NaN, Num(1, 2000), Num(1, 1000)}

JupiterOutcomes == {Thrown} \cup {Quote(p, "jupiter") : p \in JupiterPrices}

\* getPythPrice: null, or a quote clamped into [PYTH_MIN_PRICE, PYTH_MAX_PRICE];
\* it never throws
PythPrices == {Num(1, PythMinDen), Num(PythMax, 1)}

PythOutcomes == {NoQuote} \cup {Quote(p, "pyth") : p \in PythPrices}

\* A provider's outcome counts as a failure or a rejection
Rejected(outcome) ==
    outcome.kind # "quote" \/ ~IsPriceReasonable(outcome.price)

PF(cache, last) == [cachedPrice |-> cache, lastUpdateTime |-> last]

\* What a getPrice call did: queried is the number of providers it called
Returned(how, quote, pf, queried) ==
    [result |-> how, quote |-> quote, pf |-> pf, queried |-> queried]

\* The four try blocks of getPrice, from the i-th on
RECURSIVE TryProviders(_, _, _, _, _)
TryProviders(pf, force, t, outcomes, i) ==
    IF i > Len(outcomes)
    THEN Returned("throw", NoQuote, pf, Len(outcomes))
    ELSE LET o == outcomes[i]
         IN  IF o.kind = "quote" /\ IsPriceReasonable(o.price)
             THEN Returned("fresh", o, PF(o, t), i)
             ELSE IF o.kind = "throw" /\ pf.cachedPrice # NoQuote /\ ~force
             THEN Returned("cached", pf.cachedPrice, pf, i)
             ELSE TryProviders(pf, force, t, outcomes, i + 1)

\* getPrice that serves the cache whenever a provider throws, forced or not
GetPriceCacheOnForce(pf, force, t, outcomes) ==
    IF ~force /\ pf.cachedPrice # NoQuote /\ t - pf.lastUpdateTime < cacheTTL
    THEN Returned("cached", pf.cachedPrice, pf, 0)
    ELSE TryProviders(pf, FALSE, t, outcomes, 1)

\* getPrice that serves a fresh cache to a forced call as well
GetPriceShortcutOnForce(pf, force, t, outcomes) ==
    IF pf.cachedPrice # NoQuote /\ t - pf.lastUpdateTime < cacheTTL
    THEN Returned("cached", pf.cachedPrice, pf, 0)
    ELSE TryProviders(pf, force, t, outcomes, 1)

\* PriceFeed.getPrice(force) called at time t
GetPrice(pf, force, t, outcomes) ==
    IF ~force /\ pf.cachedPrice # NoQuote /\ t - pf.lastUpdateTime < cacheTTL
    THEN Returned("cached", pf.cachedPrice, pf, 0)
    ELSE TryProviders(pf, force, t, outcomes, 1)

PFIdle ==
    /\ cachedPrice = NoQuote
    /\ lastUpdateTime = 0
    /\ pfCall = [op |-> "none"]

\* new PriceFeed(config)
PFInit ==
    /\ cachedPrice = NoQuote
    /\ lastUpdateTime = 0
    /\ pfCall = [op |-> "none"]

PFGetPrice ==
    \E force \in BOOLEAN, b \in BinanceOutcomes, c \in CoinGeckoOutcomes,
       j \in JupiterOutcomes, p \in PythOutcomes :
        LET outcomes == <<b, c, j, p>>
            r == GetPrice(PF(cachedPrice, lastUpdateTime), force, now, outcomes)
        IN  /\ cachedPrice' = r.pf.cachedPrice
            /\ lastUpdateTime' = r.pf.lastUpdateTime
            /\ pfCall' = [op |-> "getPrice", force |-> force, result |-> r.result,
                          quote |-> r.quote, queried |-> r.queried,
                          outcomes |-> outcomes, cacheBefore |-> cachedPrice]
    /\ UNCHANGED <<szVars, exVars, ksVars, ksHist, rmVars, rmHist, botVars, mdVars,
                   botHist, cbVars, rgVars, enVars, sdVars, hbVars, trVars, upVars>>

---------------------------------------------------------------------------
(* CandleBuilder (src/src/data/candle-builder.ts) *)

\* The timeframes addTick maintains
Timeframes == {"15m", "1h", "4h"}

\* timeframeToMinutes(timeframe) * 60 * 1000
TimeframeMs(timeframe) ==
    CASE timeframe = "15m" -> 15 * 60 * 1000
      [] timeframe = "1h" -> 60 * 60 * 1000
      [] timeframe = "4h" -> 240 * 60 * 1000

\* maxCandles
maxCandles == 1000

\* How many addTick or forceCloseCandle calls, and how many
\* injectHistoricalCandles calls, a run makes
CbMaxTicks == 3

CbMaxInjects == 1

\* tick.timestamp, tick.price and tick.volume of the ticks fed
CbTimestamps == {1000, 450000, 901000, 14400000}

CbPrices == {100, 105}

CbVolumes == {3}

Candle(ts, o, h, l, c, v) ==
    [timestamp |-> ts, open |-> o, high |-> h, low |-> l, close |-> c, volume |-> v]

\* null in currentCandles
NoCandle == Candle(-1, 0, 0, 0, 0, 0)

\* getCandleStartTime
GetCandleStartTime(timestamp, timeframe) ==
    (timestamp \div TimeframeMs(timeframe)) * TimeframeMs(timeframe)

\* closeCandle that drops the newest candle over maxCandles
CloseCandleDropNewest(candleList, candle) ==
    LET pushed == Append(candleList, candle)
    IN  IF Len(pushed) > maxCandles THEN candleList ELSE pushed

\* closeCandle: push, then drop the oldest over maxCandles
CloseCandle(candleList, candle) ==
    LET pushed == Append(candleList, candle)
    IN  IF Len(pushed) > maxCandles THEN Tail(pushed) ELSE pushed

TF(history, current) == [candles |-> history, current |-> current]

\* updateCandle that leaves the low of the in-progress candle alone
UpdateCandleKeepLow(tf, timeframe, tick) ==
    LET candleStart == GetCandleStartTime(tick.timestamp, timeframe)
        closes == tf.current # NoCandle /\ tf.current.timestamp # candleStart
        history == IF closes THEN CloseCandle(tf.candles, tf.current) ELSE tf.candles
        cur == IF closes THEN NoCandle ELSE tf.current
    IN  IF cur = NoCandle
        THEN TF(history, Candle(candleStart, tick.price, tick.price, tick.price,
                                tick.price, tick.volume))
        ELSE TF(history,
                Candle(cur.timestamp, cur.open,
                       IF cur.high >= tick.price THEN cur.high ELSE tick.price,
                       cur.low, tick.price, cur.volume + tick.volume))

\* updateCandle that closes the in-progress candle at every tick
UpdateCandleAlwaysClose(tf, timeframe, tick) ==
    LET candleStart == GetCandleStartTime(tick.timestamp, timeframe)
        history == IF tf.current # NoCandle
                   THEN CloseCandle(tf.candles, tf.current) ELSE tf.candles
    IN  TF(history, Candle(candleStart, tick.price, tick.price, tick.price,
                           tick.price, tick.volume))

\* updateCandle for one timeframe
UpdateCandle(tf, timeframe, tick) ==
    LET candleStart == GetCandleStartTime(tick.timestamp, timeframe)
        closes == tf.current # NoCandle /\ tf.current.timestamp # candleStart
        history == IF closes THEN CloseCandle(tf.candles, tf.current) ELSE tf.candles
        cur == IF closes THEN NoCandle ELSE tf.current
    IN  IF cur = NoCandle
        THEN TF(history, Candle(candleStart, tick.price, tick.price, tick.price,
                                tick.price, tick.volume))
        ELSE TF(history,
                Candle(cur.timestamp, cur.open,
                       IF cur.high >= tick.price THEN cur.high ELSE tick.price,
                       IF cur.low <= tick.price THEN cur.low ELSE tick.price,
                       tick.price, cur.volume + tick.volume))

CBIdle ==
    /\ candles = [t \in Timeframes |-> <<>>]
    /\ currentCandles = [t \in Timeframes |-> NoCandle]
    /\ cbCall = [op |-> "none"]
    /\ cbTicks = 0
    /\ cbInjects = 0

\* new CandleBuilder()
CBInit ==
    /\ candles = [t \in Timeframes |-> <<>>]
    /\ currentCandles = [t \in Timeframes |-> NoCandle]
    /\ cbCall = [op |-> "none"]
    /\ cbTicks = 0
    /\ cbInjects = 0

CBOthers ==
    UNCHANGED <<szVars, exVars, ksVars, ksHist, rmVars, rmHist, botVars, mdVars,
                botHist, pfVars, rgVars, enVars, sdVars, hbVars, trVars, upVars>>

\* addTick with a timestamp out of a given set: updateCandle for every
\* timeframe
AddTickFrom(timestamps) ==
    /\ cbTicks < CbMaxTicks
    /\ \E ts \in timestamps, price \in CbPrices, volume \in CbVolumes :
        LET tick == [timestamp |-> ts, price |-> price, volume |-> volume]
            after == [t \in Timeframes |->
                         UpdateCandle(TF(candles[t], currentCandles[t]), t, tick)]
        IN  /\ candles' = [t \in Timeframes |-> after[t].candles]
            /\ currentCandles' = [t \in Timeframes |-> after[t].current]
            /\ cbCall' = [op |-> "addTick", tick |-> tick]
    /\ cbTicks' = cbTicks + 1
    /\ UNCHANGED cbInjects
    /\ CBOthers

\* addTick
AddTick == AddTickFrom(CbTimestamps)

\* forceCloseCandle(timeframe)
ForceCloseCandle(tf) ==
    IF tf.current # NoCandle
    THEN TF(CloseCandle(tf.candles, tf.current), NoCandle)
    ELSE tf

CBForceCloseCandle ==
    /\ cbTicks < CbMaxTicks
    /\ \E t \in Timeframes :
        LET after == ForceCloseCandle(TF(candles[t], currentCandles[t]))
        IN  /\ currentCandles[t] # NoCandle
            /\ candles' = [candles EXCEPT ![t] = after.candles]
            /\ currentCandles' = [currentCandles EXCEPT ![t] = after.current]
            /\ cbCall' = [op |-> "forceCloseCandle", timeframe |-> t]
    /\ cbTicks' = cbTicks + 1
    /\ UNCHANGED cbInjects
    /\ CBOthers

\* The closed candle of the k-th bucket of a timeframe, as a kline gives it
Kline(timeframe, k) == Candle(k * TimeframeMs(timeframe), 100, 105, 95, 102, 7)

\* Candle lists handed to injectHistoricalCandles: in order, out of order,
\* with a bucket twice, and of later buckets
InjectLists(timeframe) ==
    {<<Kline(timeframe, 0), Kline(timeframe, 1)>>,
     <<Kline(timeframe, 1), Kline(timeframe, 0)>>,
     <<Kline(timeframe, 1), Kline(timeframe, 1)>>,
     <<Kline(timeframe, 2), Kline(timeframe, 20)>>}

\* Ascending timestamps, no bucket twice
Chronological(candleList) ==
    \A i \in 1 .. Len(candleList) - 1 :
        candleList[i].timestamp < candleList[i + 1].timestamp

\* injectHistoricalCandles that appends whatever it is given
InjectUnchecked(tf, candleList) == TF(tf.candles \o candleList, tf.current)

\* injectHistoricalCandles: the candles must be chronologically sorted, lie
\* after the history there is and strictly before the in-progress candle's
\* bucket; a list that is not is rejected and the history left as it was
InjectHistoricalCandles(tf, candleList) ==
    IF /\ Chronological(candleList)
       /\ (tf.candles # <<>> /\ candleList # <<>>)
              => tf.candles[Len(tf.candles)].timestamp < candleList[1].timestamp
       /\ (tf.current # NoCandle /\ candleList # <<>>)
              => candleList[Len(candleList)].timestamp < tf.current.timestamp
    THEN TF(tf.candles \o candleList, tf.current)
    ELSE tf

CBInject ==
    /\ cbInjects < CbMaxInjects
    /\ \E t \in {"15m", "4h"} : \E candleList \in InjectLists(t) :
        LET after == InjectHistoricalCandles(TF(candles[t], currentCandles[t]),
                                             candleList)
        IN  /\ candles' = [candles EXCEPT ![t] = after.candles]
            /\ currentCandles' = [currentCandles EXCEPT ![t] = after.current]
            /\ cbCall' = [op |-> "inject", timeframe |-> t, list |-> candleList,
                          before |-> candles[t]]
    /\ cbInjects' = cbInjects + 1
    /\ UNCHANGED cbTicks
    /\ CBOthers

---------------------------------------------------------------------------
(* CandleBuilder with its 15m history at the cap *)

\* A candle of ticks at one price without volume, as MarketData.update
\* feeds them
FlatCandle(timeframe, k) == Candle(k * TimeframeMs(timeframe), 100, 100, 100, 100, 0)

\* The builder after one tick in each of the 15m buckets 1 .. n + 1: per
\* timeframe the buckets before the last tick's are closed
HistoryAfter(timeframe, n) ==
    LET first == TimeframeMs("15m") \div TimeframeMs(timeframe)
        last == ((n + 1) * TimeframeMs("15m")) \div TimeframeMs(timeframe)
    IN  TF([i \in 1 .. last - first |-> FlatCandle(timeframe, first + i - 1)],
           FlatCandle(timeframe, last))

\* Ticks in the 15m buckets around the end of that history
CapTimestamps ==
    {k * TimeframeMs("15m") + 1 : k \in maxCandles .. maxCandles + 3}

\* The 15m history one short of the cap, or at it
CBAtCap ==
    /\ \E n \in {maxCandles - 1, maxCandles} :
        /\ candles = [t \in Timeframes |-> HistoryAfter(t, n).candles]
        /\ currentCandles = [t \in Timeframes |-> HistoryAfter(t, n).current]
    /\ cbCall = [op |-> "none"]
    /\ cbTicks = 0
    /\ cbInjects = 0

\* addTick with a timestamp near the end of that history
AddTickAtCap == AddTickFrom(CapTimestamps)

\* new RiskManager: openPositions = []
TRIdle == openPositions = <<>>

---------------------------------------------------------------------------
(* shutdown() called beside the loop: stopBot (src/src/core/runner.ts),    *)
(* IronChainBot.shutdown and closeAllPositions (src/src/core/bot.ts)       *)

SDIdle == sdPc = "idle"

\* The awaits of start() and runCycle: while the loop is suspended at one,
\* the event loop can run stopBot()
CycleAwaits ==
    {"update", "equity", "entry", "buy", "exit", "sell", "closePrice",
     "closeSell", "sleep"}

SDFrame ==
    UNCHANGED <<szVars, exVars, ksVars, ksHist, rmVars, rmHist, mdVars, cycle, pc,
                pfVars, cbVars, rgVars, enVars, hbVars, trVars, upVars>>

\* stopBot() -> shutdown(): the flag is cleared and closeAllPositions
\* starts; without a position it returns at once, the database is closed
\* and shutdown completes
StopBot ==
    /\ sdPc = "idle"
    /\ pc \in CycleAwaits
    /\ isRunning' = FALSE
    /\ sdPc' = IF currentPosition # NoPos THEN "closePrice" ELSE "done"
    /\ event' = "none"
    /\ UNCHANGED currentPosition
    /\ SDFrame

\* closeAllPositions of that shutdown: the price arrives and executeExit
\* calls executor.sell, or returns at once when the position is gone; a
\* throw of getCurrentPrice rejects shutdown()
StopClosePrice ==
    /\ sdPc = "closePrice"
    /\ \E feedOk \in BOOLEAN :
        IF ~PriceAvailable(feedOk)
        THEN /\ sdPc' = "failed"
             /\ event' = "none"
             /\ UNCHANGED currentPosition
        ELSE IF currentPosition = NoPos
        THEN /\ sdPc' = "done"
             /\ event' = "none"
             /\ currentPosition' = NoPos
        ELSE /\ sdPc' = "closeSell"
             /\ event' = "sell"
             /\ UNCHANGED currentPosition
    /\ UNCHANGED isRunning
    /\ SDFrame

\* executor.sell returns to that closeAllPositions: the position is
\* cleared, the database is closed and shutdown completes
StopCloseSell ==
    /\ sdPc = "closeSell"
    /\ \E outcome \in Outcomes :
        currentPosition' = ClosedPosition(currentPosition, outcome)
    /\ sdPc' = "done"
    /\ event' = "none"
    /\ UNCHANGED isRunning
    /\ SDFrame

---------------------------------------------------------------------------
(* The heartbeat callback that start() registers (bot.ts:69-164)           *)

\* How many times the heartbeat timer fires in a run
HbMaxTicks == 1

HBIdle ==
    /\ hbPc = "idle"
    /\ hbTicks = 0

\* A position the heartbeat may find open
HbPosition ==
    [entryPrice |-> 105, amount |-> 4, stopPrice |-> 102, entryTime |-> 0,
     partialTaken |-> FALSE, trailingStopActive |-> FALSE]

\* The bot after start(), between two cycles, with the heartbeat registered
HBInit ==
    /\ hbPc = "idle"
    /\ hbTicks = 0
    /\ isRunning = TRUE
    /\ currentPosition \in {NoPos, HbPosition}
    /\ pc = "sleep"
    /\ lastTickSet = FALSE
    /\ data15 \in {0, 2}
    /\ data4h = FALSE
    /\ event = "none"
    /\ cycle = NewCycle

HBFrame ==
    UNCHANGED <<szVars, exVars, ksVars, ksHist, rmHist, enableKillSwitch, now,
                botVars, mdVars, botHist, pfCall, cbVars, rgVars, enVars, sdVars,
                trVars, upVars>>

\* The status line of the heartbeat: riskManager.canTrade() is called when
\* no position is open (bot.ts:146)
HbStatus ==
    IF currentPosition = NoPos
    THEN SetRM(CanTrade(rmNow, enableKillSwitch, now).rm)
    ELSE UNCHANGED <<currentEquity, highWaterMark, killSwitchTriggered>>

\* The timer fires: the callback runs to await executor.getBalance()
HbTick ==
    /\ hbPc = "idle"
    /\ isRunning
    /\ hbTicks < HbMaxTicks
    /\ hbPc' = "balance"
    /\ hbTicks' = hbTicks + 1
    /\ UNCHANGED <<currentEquity, highWaterMark, killSwitchTriggered,
                   cachedPrice, lastUpdateTime>>
    /\ HBFrame

\* getBalance returns, the callback goes on to await
\* marketData.getCurrentPrice(true); a throw is swallowed
HbBalance ==
    /\ hbPc = "balance"
    /\ \E balanceOk \in BOOLEAN :
        hbPc' = IF balanceOk THEN "price" ELSE "idle"
    /\ UNCHANGED <<hbTicks, currentEquity, highWaterMark, killSwitchTriggered,
                   cachedPrice, lastUpdateTime>>
    /\ HBFrame

\* getCurrentPrice(true) returns: priceFeed.getPrice(true) has run; when it
\* threw, the last tick or a 15m close stands in, else the tick ends.  With
\* enough 15m candles the callback awaits checkLiquidity, else it goes
\* straight to its status line
HbPrice ==
    /\ hbPc = "price"
    /\ \E b \in BinanceOutcomes, c \in CoinGeckoOutcomes,
          j \in JupiterOutcomes, p \in PythOutcomes :
        LET r == GetPrice(PF(cachedPrice, lastUpdateTime), TRUE, now, <<b, c, j, p>>)
        IN  /\ cachedPrice' = r.pf.cachedPrice
            /\ lastUpdateTime' = r.pf.lastUpdateTime
            /\ IF ~PriceAvailable(r.result # "throw")
               THEN /\ hbPc' = "idle"
                    /\ UNCHANGED <<currentEquity, highWaterMark, killSwitchTriggered>>
               ELSE IF data15 = 2
               THEN /\ hbPc' = "liquidity"
                    /\ UNCHANGED <<currentEquity, highWaterMark, killSwitchTriggered>>
               ELSE /\ hbPc' = "idle"
                    /\ HbStatus
    /\ UNCHANGED hbTicks
    /\ HBFrame

\* checkLiquidity returns or throws: the status line is written
HbLiquidity ==
    /\ hbPc = "liquidity"
    /\ HbStatus
    /\ hbPc' = "idle"
    /\ UNCHANGED <<hbTicks, cachedPrice, lastUpdateTime>>
    /\ HBFrame

\* The cycle's updateEquity() beside the heartbeat: riskManager.updateEquity
\* and canTrade() in one synchronous stretch (bot.ts:519-521)
CycleUpdateEquity ==
    /\ \E newEquity \in Equities :
        SetRM(CanTrade(UpdateEquity(rmNow, newEquity), enableKillSwitch, now).rm)
    /\ UNCHANGED <<hbVars, cachedPrice, lastUpdateTime>>
    /\ HBFrame

---------------------------------------------------------------------------
(* MarketData.update and getCurrentPrice (src/src/data/market-data.ts)     *)

\* update() re-uses lastTickPrice while now - lastUpdate < 60 * 1000
TickReuseMs == 60000

\* getCurrentPrice's freshnessMs: Math.max(30 * 1000, checkInterval * 2)
FreshnessMs == 30000

\* What the four providers answer during one getPrice call
MdFeeds ==
    {<<Thrown, Thrown, Thrown, NoQuote>>,
     <<Quote(Num(150, 1), "binance"), Thrown, Thrown, NoQuote>>,
     <<Thrown, Quote(Num(151, 1), "coingecko"), Thrown, NoQuote>>}

\* The direct Binance ticker request of update(): a price, or it fails
MdDirect == {Thrown, Quote(Num(152, 1), "binance")}

\* No price / a price and the time a provider delivered it
NoPrice == [has |-> FALSE, quote |-> NoQuote, obtained |-> 0]

Price(quote, obtained) == [has |-> TRUE, quote |-> quote, obtained |-> obtained]

\* candleBuilder.getCurrentCandle('15m') || getCandles('15m').slice(-1)[0]
Recent15(cur, closed) ==
    IF cur # NoCandle THEN cur
    ELSE IF closed # <<>> THEN closed[Len(closed)]
    ELSE NoCandle

\* MarketData.getCurrentPrice(force) at time t: the price it returns (or
\* none: it throws) and the state it leaves the price feed in
GetCurrentPrice(pf, force, tick, tickObtained, lastUpd, recent15, t, feed) ==
    IF ~force /\ tick # NoQuote /\ t - lastUpd < FreshnessMs
    THEN [price |-> Price(tick, tickObtained), pf |-> pf]
    ELSE LET r == GetPrice(pf, force, t, feed)
         IN  IF r.result = "fresh"
             THEN [price |-> Price(r.quote, t), pf |-> r.pf]
             ELSE IF r.result = "cached"
             THEN [price |-> Price(r.quote, pf.lastUpdateTime), pf |-> r.pf]
             ELSE IF tick # NoQuote
             THEN [price |-> Price(tick, tickObtained), pf |-> r.pf]
             ELSE IF recent15 # NoCandle
             THEN [price |-> Price(Quote(Num(recent15.close, 1), "preload"),
                                   recent15.timestamp),
                   pf |-> r.pf]
             ELSE [price |-> NoPrice, pf |-> r.pf]

\* update() up to its test of priceData: the forced fetch, the direct
\* Binance request, the last tick while now - lastUpdate < 60 s, and
\* getCurrentPrice() at last
PriceForTick(pf, tick, tickObtained, lastUpd, recent15, t, forced, direct, unforced) ==
    LET r == GetPrice(pf, TRUE, t, forced)
    IN  IF r.result = "fresh"
        THEN [price |-> Price(r.quote, t), pf |-> r.pf]
        ELSE IF direct.kind = "quote"
        THEN [price |-> Price(direct, t), pf |-> r.pf]
        ELSE IF tick # NoQuote /\ t - lastUpd < TickReuseMs
        THEN [price |-> Price(tick, tickObtained), pf |-> r.pf]
        ELSE GetCurrentPrice(r.pf, FALSE, tick, tickObtained, lastUpd, recent15, t,
                             unforced)

UPIdle ==
    /\ lastTickPrice = NoQuote
    /\ lastUpdate = 0
    /\ lastTickObtained = 0
    /\ mdCall = [op |-> "none"]

\* new MarketData(config)
UPInit ==
    /\ lastTickPrice = NoQuote
    /\ lastUpdate = 0
    /\ lastTickObtained = 0
    /\ mdCall = [op |-> "none"]

\* MarketData.update(): with a price it feeds one tick to the candle
\* builder and stores the price as lastTickPrice; without one it returns
MDUpdate ==
    /\ \E forced \in MdFeeds, direct \in MdDirect, unforced \in MdFeeds :
        LET r == PriceForTick(PF(cachedPrice, lastUpdateTime), lastTickPrice,
                              lastTickObtained, lastUpdate,
                              Recent15(currentCandles["15m"], candles["15m"]),
                              now, forced, direct, unforced)
            tick == [timestamp |-> now,
                     price |-> r.price.quote.price.v[1] \div r.price.quote.price.v[2],
                     volume |-> 0]
            after == [t \in Timeframes |->
                         UpdateCandle(TF(candles[t], currentCandles[t]), t, tick)]
        IN  /\ cachedPrice' = r.pf.cachedPrice
            /\ lastUpdateTime' = r.pf.lastUpdateTime
            /\ IF r.price.has
               THEN /\ candles' = [t \in Timeframes |-> after[t].candles]
                    /\ currentCandles' = [t \in Timeframes |-> after[t].current]
                    /\ lastUpdate' = now
                    /\ lastTickPrice' = r.price.quote
                    /\ lastTickObtained' = r.price.obtained
                    /\ mdCall' = [op |-> "update", added |-> TRUE, at |-> now,
                                  obtained |-> r.price.obtained]
               ELSE /\ UNCHANGED <<candles, currentCandles, lastUpdate,
                                   lastTickPrice, lastTickObtained>>
                    /\ mdCall' = [op |-> "update", added |-> FALSE, at |-> now,
                                  obtained |-> 0]
    /\ UNCHANGED <<szVars, exVars, ksVars, ksHist, rmVars, rmHist, botVars, mdVars,
                   botHist, pfCall, cbCall, cbTicks, cbInjects, rgVars, enVars,
                   sdVars, hbVars, trVars>>

\* All components beside the risk controls and the loop, not in use
ExtIdle == PFIdle /\ CBIdle /\ RGIdle /\ ENIdle /\ SDIdle /\ HBIdle /\ TRIdle /\ UPIdle

---------------------------------------------------------------------------
(* Specifications of the components *)

InitSizer == SizerInit /\ ExitIdle /\ KSIdle /\ RMIdle /\ BotIdle /\ ExtIdle

SpecSizer == InitSizer /\ [][SizerCalculate]_vars

InitExit == ExitInit /\ SizerIdle /\ KSIdle /\ RMIdle /\ BotIdle /\ ExtIdle

SpecExit == InitExit /\ [][ExitCheck \/ ExitUpdate]_vars

InitKS == KSInit /\ SizerIdle /\ ExitIdle /\ RMIdle /\ BotIdle /\ ExtIdle

NextKS ==
    \/ KSTrigger
    \/ KSIsTriggered
    \/ KSReset
    \/ OperatorCreatesFile
    \/ OperatorRemovesFile

SpecKS == InitKS /\ [][NextKS]_vars

\* The kill switch over process restarts
NextRestart ==
    \/ KSTrigger
    \/ KSIsTriggered
    \/ KSReset
    \/ KSRestart
    \/ OperatorCreatesFile
    \/ OperatorRemovesFile

SpecRestart == InitKS /\ [][NextRestart]_vars

InitRisk == RMInit /\ SizerIdle /\ ExitIdle /\ KSIdle /\ BotIdle /\ ExtIdle

NextRisk ==
    \/ RMUpdateEquity
    \/ RMCheckDrawdown
    \/ RMCanTrade
    \/ RMReset
    \/ ClockTick

SpecRisk == InitRisk /\ [][NextRisk]_vars

\* The risk controls and the loop, not in use
CoreIdle == SizerIdle /\ ExitIdle /\ KSIdle /\ RMIdle /\ BotIdle

InitPrice == PFInit /\ CBIdle /\ RGIdle /\ ENIdle /\ SDIdle /\ HBIdle /\ TRIdle /\ UPIdle /\ CoreIdle

NextPrice ==
    \/ PFGetPrice
    \/ ClockTick

SpecPrice == InitPrice /\ [][NextPrice]_vars

InitCandles == CBInit /\ PFIdle /\ RGIdle /\ ENIdle /\ SDIdle /\ HBIdle /\ TRIdle /\ UPIdle /\ CoreIdle

NextCandles ==
    \/ AddTick
    \/ CBForceCloseCandle
    \/ CBInject

SpecCandles == InitCandles /\ [][NextCandles]_vars

\* The candle builder from a 15m history at the cap
InitCap == CBAtCap /\ PFIdle /\ RGIdle /\ ENIdle /\ SDIdle /\ HBIdle /\ TRIdle /\ UPIdle /\ CoreIdle

NextCap ==
    \/ AddTickAtCap
    \/ CBForceCloseCandle

SpecCap == InitCap /\ [][NextCap]_vars

\* The candle builder fed by addTick alone
SpecTicks == InitCandles /\ [][AddTick]_vars

InitRegime == RGInit /\ PFIdle /\ CBIdle /\ ENIdle /\ SDIdle /\ HBIdle /\ TRIdle /\ UPIdle /\ CoreIdle

SpecRegime == InitRegime /\ [][RGAnalyze]_vars

InitEntry == ENInit /\ PFIdle /\ CBIdle /\ RGIdle /\ SDIdle /\ HBIdle /\ TRIdle /\ UPIdle /\ CoreIdle

SpecEntry == InitEntry /\ [][ENCheckEntry]_vars

\* The control loop with its kill switch and risk manager, the operator's
\* sentinel file and the clock
Init == BotInit /\ KSInit /\ RMInit /\ SizerIdle /\ ExitIdle /\ ExtIdle

Next ==
    \/ Start
    \/ RunCycle
    \/ MarketDataUpdate
    \/ UpdateEquityAndGate
    \/ CheckEntry
    \/ BuyReturns
    \/ BotCheckExit
    \/ SellReturns
    \/ ClosePrice
    \/ CloseSell
    \/ Sleep
    \/ LoopExit
    \/ OperatorCreatesFile
    \/ OperatorRemovesFile
    \/ ClockTick

Spec == Init /\ [][Next]_vars

\* The loop with a shutdown() called from outside it; the bootstraps have
\* filled the candle history and the operator leaves the sentinel alone
InitStop ==
    /\ BotInit /\ KSInit /\ RMInit /\ SizerIdle /\ ExitIdle /\ ExtIdle
    /\ lastTickSet /\ data15 = 2 /\ data4h

NextStop ==
    \/ Start
    \/ RunCycle
    \/ MarketDataUpdate
    \/ UpdateEquityAndGate
    \/ CheckEntry
    \/ BuyReturns
    \/ BotCheckExit
    \/ SellReturns
    \/ ClosePrice
    \/ CloseSell
    \/ Sleep
    \/ LoopExit
    \/ ClockTick
    \/ StopBot
    \/ StopClosePrice
    \/ StopCloseSell

SpecStop == InitStop /\ [][NextStop]_vars

\* The loop with RiskManager.openPositions followed; the bootstraps have
\* filled the candle history and the operator leaves the sentinel alone
InitTrades ==
    /\ BotInit /\ KSInit /\ RMInit /\ SizerIdle /\ ExitIdle /\ ExtIdle
    /\ lastTickSet /\ data15 = 2 /\ data4h

NextTrades ==
    \/ Start
    \/ RunCycle
    \/ MarketDataUpdate
    \/ UpdateEquityAndGate
    \/ CheckEntry
    \/ BuyReturnsTracked
    \/ BotCheckExit
    \/ SellReturns
    \/ ClosePrice
    \/ CloseSell
    \/ Sleep
    \/ LoopExit
    \/ ClockTick

SpecTrades == InitTrades /\ [][NextTrades]_vars

\* MarketData.update over its price feed and candle builder, and the clock
InitUpdate ==
    UPInit /\ PFInit /\ CBInit /\ RGIdle /\ ENIdle /\ SDIdle /\ HBIdle /\ TRIdle
        /\ CoreIdle

NextUpdate ==
    \/ MDUpdate
    \/ ClockTick

SpecUpdate == InitUpdate /\ [][NextUpdate]_vars

\* The heartbeat beside the price feed and the risk manager
InitHeartbeat ==
    HBInit /\ PFInit /\ RMInit /\ KSIdle /\ SizerIdle /\ ExitIdle /\ CBIdle /\ RGIdle
        /\ ENIdle /\ SDIdle /\ TRIdle /\ UPIdle

NextHeartbeat ==
    \/ HbTick
    \/ HbBalance
    \/ HbPrice
    \/ HbLiquidity
    \/ CycleUpdateEquity
    \/ ClockTick

SpecHeartbeat == InitHeartbeat /\ [][NextHeartbeat]_vars

---------------------------------------------------------------------------
(* Claims about ExitManager, under SpecExit *)

StopCond(pos, price) == price <= pos.stopPrice

PartialCond(pos, price) ==
    /\ ~pos.partialTaken
    /\ RMultipleGe(price - pos.entryPrice, pos.entryPrice - pos.stopPrice,
                   PartialTPRNum, PartialTPRDen)

TrailingCond(pos, price, ema) ==
    /\ pos.partialTaken \/ pos.trailingStopActive
    /\ ema # 0
    /\ price < ema

TimeCond(pos, price, held) ==
    /\ held >= TimeExitHours * MsPerHour
    /\ RMultipleLt(price - pos.entryPrice, pos.entryPrice - pos.stopPrice,
                   TimeExitMinRNum, TimeExitMinRDen)

FirstExitType(pos, price, ema, held) ==
    IF StopCond(pos, price) THEN "stop"
    ELSE IF PartialCond(pos, price) THEN "partial_tp"
    ELSE IF TrailingCond(pos, price, ema) THEN "trailing"
    ELSE IF TimeCond(pos, price, held) THEN "time"
    ELSE "none"

\* C7: checkExit returns the exit type of the first condition that holds in
\* the order stop, partial_tp, trailing, time, none; when currentPrice <=
\* stopPrice the result is a full (percentage 1.0) stop exit, also when the
\* partial take-profit condition holds at the same time.
C7_ExitPriority ==
    exSignal.kind = "signal" =>
        /\ exSignal.exitType = FirstExitType(exPosition, exPrice, exEma, exHeld)
        /\ exSignal.shouldExit = (exSignal.exitType # "none")
        /\ StopCond(exPosition, exPrice) =>
               /\ exSignal.exitType = "stop"
               /\ exSignal.percentage = <<1, 1>>

\* A checked position for which the stop and the partial take-profit
\* conditions hold together, and the signal is the stop
C7_Witness ==
    /\ exSignal.kind = "signal"
    /\ StopCond(exPosition, exPrice)
    /\ PartialCond(exPosition, exPrice)
    /\ exSignal.exitType = "stop"

\* C8: updatePosition on a partial_tp signal sets partialTaken and
\* trailingStopActive, moves the stop to the entry price, scales the amount
\* by (1 - partialTPPercent) and keeps entryPrice and entryTime; with entry
\* 105 and stop 102 (210 and 204 half-dollars) the partial take-profit
\* triggers from 109.5 (219) on and leaves the stop at 105 (210).
C8_PartialUpdate ==
    /\ (exUpdated # ExNone /\ exSignal.exitType = "partial_tp") =>
        /\ exUpdated.partialTaken
        /\ exUpdated.trailingStopActive
        /\ exUpdated.stopPrice = exPosition.entryPrice
        /\ exUpdated.amount * PartialTPPctDen
             = exPosition.amount * (PartialTPPctDen - PartialTPPctNum)
        /\ exUpdated.entryPrice = exPosition.entryPrice
        /\ exUpdated.entryTime = exPosition.entryTime
    /\ (/\ exSignal.kind = "signal"
        /\ exPosition.entryPrice = 210
        /\ exPosition.stopPrice = 204
        /\ ~exPosition.partialTaken) =>
        (exSignal.exitType = "partial_tp" <=> exPrice >= 219)

\* The scenario: entry 105, stop 102, price 109.5, updated to stop 105
C8_Witness ==
    /\ exUpdated # ExNone
    /\ exSignal.exitType = "partial_tp"
    /\ exPosition.entryPrice = 210
    /\ exPosition.stopPrice = 204
    /\ exPrice = 219
    /\ exUpdated.stopPrice = 210
    /\ exUpdated.amount * 2 = exPosition.amount

---------------------------------------------------------------------------
(* Claims about PositionSizer, under SpecSizer *)

CapUSD(p) == <<p.equity * p.maxPositionPercent[1], p.maxPositionPercent[2]>>

\* equity * riskPercent / |entryPrice - stopPrice|, in units of the asset
AssetSize(p) ==
    <<p.equity * p.riskPercent[1],
      p.riskPercent[2] * Abs(p.entryPrice - p.stopPrice)>>

\* C9: calculate returns sizeUSD = min(assetSize * entryPrice, equity *
\* maxPositionPercent); for equity 10000, entry 105, stop 102, risk 0.01 and
\* cap 0.40 that is 3500.
C9_SizeUSD ==
    szResult.kind = "ok" =>
        /\ RatEq(szResult.sizeUSDC,
                 RatMin(RatMulInt(AssetSize(szParams), szParams.entryPrice),
                        CapUSD(szParams)))
        /\ szParams = [equity |-> 10000, entryPrice |-> 105, stopPrice |-> 102,
                       riskPercent |-> <<1, 100>>,
                       maxPositionPercent |-> <<40, 100>>]
             => RatEq(szResult.sizeUSDC, <<3500, 1>>)

\* C10: with equity > 0 and entryPrice # stopPrice, the size returned has
\* sizeUSD <= equity * maxPositionPercent and percentOfEquity <=
\* maxPositionPercent.
C10_SizeWithinCap ==
    (szResult # SzNone /\ szParams.equity > 0
       /\ szParams.entryPrice # szParams.stopPrice) =>
        /\ szResult.kind = "ok"
        /\ RatLe(szResult.sizeUSDC, CapUSD(szParams))
        /\ RatLe(szResult.percentOfEquity, szParams.maxPositionPercent)

\* A call in which the cap binds: the risk-based size exceeds it
C10_Witness ==
    /\ szResult.kind = "ok"
    /\ RatLt(CapUSD(szParams), AssetSize(szParams))
    /\ RatEq(szResult.sizeUSDC, CapUSD(szParams))

---------------------------------------------------------------------------
(* Claims about KillSwitch, under SpecKS *)

\* C3: once isTriggered() has returned true, every later isTriggered() call
\* returns true, also after the sentinel file was removed from outside, until
\* reset() is called; right after reset() the latch is clear, the sentinel
\* is absent and isTriggered() would return false.
C3_LatchedUntilReset ==
    /\ (ksCall.op = "isTriggered" /\ ksCall.observedBefore) => ksCall.result
    /\ ksCall.op = "reset" =>
           /\ ~triggered
           /\ killSwitchFile = NoFile
           /\ ~IsTriggered(ksNow, TRUE).result

\* isTriggered() returns true although the sentinel, seen by an earlier
\* call, has since been removed from outside
C3_Witness ==
    /\ ksCall.op = "isTriggered"
    /\ ksCall.observedBefore
    /\ ksCall.result
    /\ killSwitchFile = NoFile
    /\ triggerEvent = Event("manual")

---------------------------------------------------------------------------
(* Claims about RiskManager, under SpecRisk *)

\* C5: the high-water-mark never decreases under updateEquity, and over a
\* sequence of equity updates it equals, after each call, the maximum of the
\* initial equity and every value passed so far.
C5_HighWaterMark ==
    rmCall.op = "updateEquity" =>
        /\ highWaterMark >= rmCall.hwmBefore
        /\ ~rmResetSeen => highWaterMark = rmMaxSeen

\* An update below an earlier, higher one: the mark stays at the maximum
C5_Witness ==
    /\ rmCall.op = "updateEquity"
    /\ ~rmResetSeen
    /\ currentEquity = 790
    /\ highWaterMark = 1200
    /\ rmCall.hwmBefore = 1200

\* C6: a canTrade() call made less than startupGraceMs after construction
\* returns canTrade = true whatever the equity, the high-water-mark, the
\* drawdown and the kill-switch flag are.
C6_GraceForcesCanTrade ==
    (rmCall.op = "canTrade" /\ rmCall.at - startedAt < startupGraceMs)
        => rmCall.canTrade

\* A call inside the grace window, with the drawdown over the maximum and
\* the kill-switch flag set
C6_Witness ==
    /\ rmCall.op = "canTrade"
    /\ rmCall.at - startedAt < startupGraceMs
    /\ rmCall.canTrade
    /\ killSwitchTriggered
    /\ DrawdownGe(rmNow, MaxDrawdownNum, MaxDrawdownDen)

---------------------------------------------------------------------------
(* Claims about the control loop, under Spec *)

\* C1: once the kill switch is latched (trigger was called, or isTriggered()
\* saw the sentinel file), no step of the control loop calls executor.buy.
\* The loop never calls reset().
C1_NoBuyOnceLatched == [][triggered => event' # "buy"]_vars

\* The kill switch is latched, its sentinel file absent, while a position
\* bought earlier is open and the loop is about to run its next cycle
C1_Witness ==
    /\ triggered
    /\ killSwitchFile = NoFile
    /\ isRunning
    /\ currentPosition # NoPos
    /\ pc = "loop"

\* C2: a cycle that finds the kill switch triggered at its start clears the
\* running flag, goes nowhere but through the flattening, and ends with no
\* open position; no further cycle starts.
C2_KilledCycleFlattensAndStops ==
    cycle.killAtStart =>
        /\ ~isRunning
        /\ pc \in {"closePrice", "closeSell", "sleep", "loop", "done"}
        /\ pc \in {"sleep", "loop", "done"} => currentPosition = NoPos

\* Such a cycle has ended after selling an open position, the sell failing
C2_Witness ==
    /\ cycle.killAtStart
    /\ cycle.flattened
    /\ cycle.sellResult = "failure"
    /\ pc = "done"
    /\ currentPosition = NoPos

\* C4 as claimed: the cycle whose equity update first takes the drawdown to
\* maxDrawdownPercent or more, with the kill switch enabled, ends with the
\* kill switch latched and no open position.
C4_BreachLatchesSameCycle ==
    (pc = "sleep" /\ cycle.breach # "none") =>
        /\ triggered
        /\ currentPosition = NoPos

\* C4 amended: the same, for a cycle whose risk gate runs once the startup
\* grace window (startupGraceMs since construction) has elapsed; such a
\* cycle that observes equity 790 under a high-water-mark of 1200 latches.
C4_BreachLatchesAfterGrace ==
    (pc = "sleep" /\ cycle.breach = "live") =>
        /\ triggered
        /\ currentPosition = NoPos

\* The scenario's last cycle: equity 790 after a high of 1200, latched for
\* drawdown, the open position sold
C4_Witness ==
    /\ pc = "sleep"
    /\ cycle.breach = "live"
    /\ currentEquity = 790
    /\ highWaterMark = 1200
    /\ triggered
    /\ triggerEvent = Event("drawdown")
    /\ cycle.flattened
    /\ currentPosition = NoPos

---------------------------------------------------------------------------
(* Claims about PriceFeed, under SpecPrice *)

\* A price is a finite positive number within [0.001, 1000000]
WithinPlausibility(price) ==
    /\ price.k = "num"
    /\ price.v[1] > 0
    /\ price.v[1] * 1000 >= price.v[2]
    /\ price.v[1] <= 1000000 * price.v[2]

\* C11: every quote getPrice returns, fetched or served from the cache,
\* forced or not, has a finite positive price within [0.001, 1000000]; so
\* has the quote the cache holds.
C11_QuoteWithinBounds ==
    /\ (pfCall.op = "getPrice" /\ pfCall.result # "throw")
           => WithinPlausibility(pfCall.quote.price)
    /\ cachedPrice # NoQuote => WithinPlausibility(cachedPrice.price)

\* Binance's quote lies over the bound and is passed by; the quote returned
\* is the next provider's, on the bound
C11_Witness ==
    /\ pfCall.op = "getPrice"
    /\ pfCall.result = "fresh"
    /\ pfCall.outcomes[1] = Quote(Num(1000001, 1), "binance")
    /\ pfCall.quote = Quote(Num(1000000, 1), "coingecko")
    /\ cachedPrice = pfCall.quote

\* C12: getPrice throws only when every provider failed or was rejected and
\* there was no cached quote; a forced call whose providers all fail while a
\* quote is cached returns that quote.
C12_ThrowsOnlyWithoutCache ==
    pfCall.op = "getPrice" =>
        /\ pfCall.result = "throw" =>
               /\ \A i \in 1 .. 4 : Rejected(pfCall.outcomes[i])
               /\ pfCall.cacheBefore = NoQuote
        /\ (/\ pfCall.force
            /\ pfCall.cacheBefore # NoQuote
            /\ \A i \in 1 .. 4 : pfCall.outcomes[i].kind # "quote")
               => (pfCall.result = "cached" /\ pfCall.quote = pfCall.cacheBefore)

---------------------------------------------------------------------------
(* Claims about CandleBuilder, under SpecCandles *)

\* low <= min(open, close) <= max(open, close) <= high, and the timestamp is
\* a multiple of the timeframe's duration
WellFormed(c, timeframe) ==
    /\ c.low <= c.open /\ c.low <= c.close
    /\ c.open <= c.high /\ c.close <= c.high
    /\ c.timestamp % TimeframeMs(timeframe) = 0

\* C13: every candle, in progress or closed, of every timeframe has
\* low <= min(open, close) <= max(open, close) <= high and a timestamp that
\* is a multiple of the timeframe's duration; after an addTick the
\* in-progress candle's timestamp is the bucket start of the tick, the
\* multiple of the duration with timestamp <= tick time < timestamp + duration.
C13_CandlesWellFormed ==
    \A t \in Timeframes :
        /\ currentCandles[t] # NoCandle => WellFormed(currentCandles[t], t)
        /\ \A i \in 1 .. Len(candles[t]) : WellFormed(candles[t][i], t)
        /\ cbCall.op = "addTick" =>
               /\ currentCandles[t] # NoCandle
               /\ currentCandles[t].timestamp <= cbCall.tick.timestamp
               /\ cbCall.tick.timestamp < currentCandles[t].timestamp + TimeframeMs(t)

\* Two ticks of one 15m bucket, the price falling from 105 to 100, the
\* second tick not on a bucket boundary
C13_Witness ==
    /\ cbCall.op = "addTick"
    /\ cbCall.tick.timestamp = 450000
    /\ currentCandles["15m"] = Candle(0, 105, 105, 100, 100, 6)

\* C14: for each timeframe, an addTick whose bucket is the in-progress
\* candle's leaves the closed history as it was; one whose bucket differs
\* appends the former in-progress candle, unmodified, and nothing else, and
\* opens a new in-progress candle with open = high = low = close = price.
C14_TickAppendsAtMostOne ==
    [][(cbCall'.op = "addTick" /\ cbTicks' = cbTicks + 1) =>
        \A t \in Timeframes :
            LET bucket == GetCandleStartTime(cbCall'.tick.timestamp, t)
                price == cbCall'.tick.price
            IN  IF currentCandles[t] = NoCandle
                THEN candles'[t] = candles[t]
                ELSE IF currentCandles[t].timestamp = bucket
                THEN /\ candles'[t] = candles[t]
                     /\ currentCandles'[t].timestamp = bucket
                     /\ currentCandles'[t].open = currentCandles[t].open
                ELSE /\ Len(candles[t]) < maxCandles =>
                            candles'[t] = Append(candles[t], currentCandles[t])
                     /\ currentCandles'[t] =
                            Candle(bucket, price, price, price, price,
                                   cbCall'.tick.volume)]_vars

\* A tick that crosses the 15m boundary inside one 1h bucket: the 15m history
\* has gained the candle of two ticks, the 1h history nothing
C14_Witness ==
    /\ cbCall.op = "addTick"
    /\ cbCall.tick.timestamp = 901000
    /\ candles["15m"] = <<Candle(0, 100, 105, 100, 105, 6)>>
    /\ currentCandles["15m"] = Candle(900000, 100, 100, 100, 100, 3)
    /\ candles["1h"] = <<>>
    /\ currentCandles["1h"].timestamp = 0

\* A history in ascending order without a bucket twice, all of it before the
\* in-progress candle's bucket
Ordered(history, current) ==
    /\ Chronological(history)
    /\ (history # <<>> /\ current # NoCandle)
           => history[Len(history)].timestamp < current.timestamp

\* C15: an injectHistoricalCandles call whose candles are out of order,
\* overlap the history or do not precede the in-progress candle's bucket
\* leaves the timeframe's history ordered and without duplicate buckets, as
\* it found it.
C15_InjectKeepsHistoryOrdered ==
    cbCall.op = "inject" =>
        (Ordered(cbCall.before, currentCandles[cbCall.timeframe])
            => Ordered(candles[cbCall.timeframe], currentCandles[cbCall.timeframe]))

\* An out-of-order list handed over while there is history: it is turned down
C15_Witness ==
    /\ cbCall.op = "inject"
    /\ cbCall.timeframe = "15m"
    /\ cbCall.list = <<Kline("15m", 1), Kline("15m", 0)>>
    /\ cbCall.before # <<>>
    /\ Ordered(cbCall.before, currentCandles["15m"])
    /\ candles["15m"] = cbCall.before

\* The regime the decision order gives for defined indicator values
DecisionOrder(price, ema50, ema200, adx) ==
    IF price > ema50 /\ ema50 > ema200 /\ adx > adxThreshold THEN "BULL"
    ELSE IF price < ema50 THEN "BEAR"
    ELSE "SIDEWAYS"

\* C16: given defined (non-null) fast EMA, slow EMA and ADX values, analyze
\* returns BULL iff price > fastEMA > slowEMA and ADX > threshold, otherwise
\* BEAR iff price < fastEMA, otherwise SIDEWAYS.
C16_DecisionOrder ==
    (rgResult # RgNone /\ rgResult.outcome = "ok"
        /\ rgInput.ema50.def /\ rgInput.ema200.def /\ rgInput.adx.def)
    => rgResult.regime =
         DecisionOrder(IF rgInput.livePrice.def THEN rgInput.livePrice.v
                       ELSE rgInput.close,
                       rgInput.ema50.v, rgInput.ema200.v, rgInput.adx.v)

\* C17: executor.buy is invoked only in a cycle whose regime analysis of the
\* 4h candles returned BULL: never in a cycle classified BEAR or SIDEWAYS, and
\* never in a cycle without enough 4h history (where no analysis is made).
C17_BuyOnlyInBull ==
    (pc = "buy" \/ event = "buy") => cycle.regime = "BULL"

C17_Witness ==
    pc = "buy" /\ event = "buy" /\ cycle.regime = "BULL" /\ data4h

\* The Donchian high a close can break: the highest high of the period
\* candles before the last one, or null
PriorDonchianHigh(cs, period) ==
    IF Len(cs) < period + 1 THEN Null
    ELSE Val(HighestHigh(cs, Len(cs) - period, Len(cs) - 1))

\* The three checks as the documentation states them
EntryConditions(in) ==
    /\ in.count > 0
    /\ PriorDonchianHigh(in.candles, donchianPeriod).def
    /\ in.candles[in.count].close > PriorDonchianHigh(in.candles, donchianPeriod).v
    /\ in.rsi.def /\ in.rsi.v >= rsiLow /\ in.rsi.v <= rsiHigh
    /\ in.rsiPrev.def /\ in.rsi.v > in.rsiPrev.v
    /\ RatLe(in.liquidity.spread, maxSpread)
    /\ in.liquidity.depthUSD >= minLiquidityDepth
    /\ RatLe(in.liquidity.estimatedImpact, maxPriceImpact)

\* C18: checkEntry returns shouldEnter = true iff the last close is above the
\* N-period Donchian high, the RSI is within [rsiLow, rsiHigh] and rising, and
\* spread, depth and impact pass their limits; the confidence is in [0, 1].
C18_EntryIff ==
    enResult # EnNone =>
        /\ enResult.shouldEnter <=> EntryConditions(enInput)
        /\ RatLe(<<0, 1>>, enResult.confidence)
        /\ RatLe(enResult.confidence, <<1, 1>>)

\* An executor call returns to the loop with success = false
BuyFailed == pc = "buy" /\ pc' # "buy" /\ cycle'.buyResult = "failure"

SellFailed ==
    pc \in {"sell", "closeSell"} /\ pc' # pc /\ cycle'.sellResult = "failure"

\* C19: when executor.buy or executor.sell returns success = false, the
\* position is what it was before the call: a failed buy creates none, a
\* failed sell (partial, full or kill-switch flattening) neither shrinks,
\* re-flags nor clears it.
C19_FailedExecutionKeepsPosition ==
    [][(BuyFailed \/ SellFailed) => currentPosition' = currentPosition]_vars

\* getCurrentPrice or getBalance throws inside runCycle: the one step that
\* leaves an await of the cycle straight for the loop's next iteration
FetchFailed ==
    pc \in {"equity", "entry", "exit", "closePrice"} /\ pc' = "loop"

\* C20: a failed price or balance fetch during a cycle costs at most that
\* cycle: it does not latch the kill switch (neither the flag nor the
\* sentinel file), and the loop is left running for the next cycle.
C20_FetchFailureSkipsCycle ==
    [][FetchFailed =>
          /\ triggered' = triggered
          /\ killSwitchFile' = killSwitchFile
          /\ isRunning']_vars

\* C21: in every cycle that evaluates the canTrade() gate, updateEquity has
\* been called earlier in that cycle, and the gate evaluates the drawdown on
\* the equity that call passed in, never on one left from a cycle before.
C21_GateSeesSameCycleEquity ==
    cycle.gate.def => (cycle.equity.def /\ cycle.gate.v = cycle.equity.v)

\* A gate that stopped trading on an equity other than the one before it
C21_Witness ==
    /\ cycle.gate.def
    /\ ~cycle.gate.canTrade
    /\ cycle.gate.v = 790
    /\ cycle.equity = Val(790)
    /\ highWaterMark = 1200

\* C22: executor.buy is never invoked while a position is open.
C22_NoBuyWhilePositionOpen ==
    (pc = "buy" \/ event = "buy") => currentPosition = NoPos

\* A buy is under way with no position open, some time after the start
C22_Witness ==
    /\ pc = "buy"
    /\ event = "buy"
    /\ currentPosition = NoPos
    /\ now > startedAt

\* The canTrade() gate of a cycle lets it pass while a position is open
GatePassedWithPosition ==
    /\ pc = "equity"
    /\ currentPosition # NoPos
    /\ cycle'.gate.def
    /\ cycle'.gate.canTrade

\* C28: a cycle that starts with an open position and passes the kill-switch
\* and risk gates runs checkExit for it, whatever the regime and whether or
\* not the 4h history suffices.
C28_ExitEvaluatedWithPosition ==
    [][GatePassedWithPosition => pc' = "exit"]_vars

\* C30: every position the loop holds has entryPrice > stopPrice, from its
\* creation through partial take-profit, so the R-multiple's denominator
\* entryPrice - stopPrice is positive.
C30_EntryAboveStop ==
    currentPosition # NoPos =>
        currentPosition.entryPrice > currentPosition.stopPrice

\* C29: an entry signal is reachable with well-formed candles (high >= close):
\* when the last close is above the highest high of the donchianPeriod candles
\* before it and the RSI and liquidity checks pass, checkEntry returns
\* shouldEnter = true.
C29_BreakoutEnters ==
    (enResult # EnNone /\ EntryConditions(enInput)) => enResult.shouldEnter

\* C25: whenever the sentinel file exists, isTriggered() returns true whatever
\* the flag is, and a flag that was not set becomes latched with a trigger
\* event of type 'manual'.
C25_SentinelForcesTrigger ==
    [][(ksCall'.op = "isTriggered" /\ killSwitchFile # NoFile) =>
          /\ ksCall'.result
          /\ triggered'
          /\ ~triggered => triggerEvent' = Event("manual")]_vars

\* isTriggered() has latched a fresh kill switch on the operator's file
C25_Witness ==
    /\ ksCall.op = "isTriggered"
    /\ ksCall.result
    /\ ~ksCall.observedBefore
    /\ triggered
    /\ triggerEvent = Event("manual")
    /\ killSwitchFile # NoFile

\* C26: after trigger() has been called, a KillSwitch constructed anew
\* (process restart) reports isTriggered() = true, until reset() is called.
C26_TriggerSurvivesRestart ==
    [][(ksTrig = "restarted" /\ ksCall'.op = "isTriggered") => ksCall'.result]_vars

\* C27: trigger() on a kill switch that is already triggered leaves the flag,
\* the recorded trigger event and the sentinel file as they were.
C27_TriggerIdempotent ==
    [][(triggered /\ ksCall'.op = "trigger") =>
          /\ triggered'
          /\ triggerEvent' = triggerEvent
          /\ killSwitchFile' = killSwitchFile]_vars

---------------------------------------------------------------------------
(* Claims about shutdown beside a cycle, under SpecStop *)

\* C23: once a shutdown() called from outside the loop has completed, no
\* step leaves a position open and no step calls executor.buy
C23_NoTradeAfterShutdown ==
    [][sdPc = "done" => (currentPosition' = NoPos /\ event' # "buy")]_vars

---------------------------------------------------------------------------
(* Claims about the heartbeat, under SpecHeartbeat *)

\* A step of the heartbeat callback
HeartbeatStep == hbPc' # hbPc

\* C24: a step of the heartbeat changes none of the open position, the
\* RiskManager's equity, high-water-mark and kill flag, the kill switch,
\* the candle history, the last tick and the price cache
C24_HeartbeatChangesNothing ==
    [][HeartbeatStep =>
          UNCHANGED <<currentPosition, currentEquity, highWaterMark,
                      killSwitchTriggered, ksVars, candles, currentCandles,
                      mdVars, cachedPrice, lastUpdateTime>>]_vars

---------------------------------------------------------------------------
(* Claims about the cache of PriceFeed.getPrice, under SpecPrice *)

\* A step that is a getPrice call: the clock stands still
GetPriceStep == now' = now /\ pfCall'.op = "getPrice"

\* Before the call the cache holds a quote younger than the TTL
CacheFresh == cachedPrice # NoQuote /\ now - lastUpdateTime < cacheTTL

\* The call served the quote that was cached before it and left the cache
\* and its timestamp alone, after calling k providers
ServedCache(k) ==
    /\ pfCall'.result = "cached"
    /\ pfCall'.quote = cachedPrice
    /\ pfCall'.queried = k
    /\ cachedPrice' = cachedPrice
    /\ lastUpdateTime' = lastUpdateTime

\* C31: in a non-forced call with a stale cached quote the first provider
\* exception returns the cached quote at once, no later provider is called;
\* in a forced call, or without a cache, a provider exception is followed by
\* the next provider in order
C31_ProviderException ==
    [][GetPriceStep =>
          \A k \in 1 .. 4 :
              LET o == pfCall'.outcomes
              IN  /\ (/\ ~pfCall'.force
                      /\ cachedPrice # NoQuote
                      /\ ~CacheFresh
                      /\ o[k].kind = "throw"
                      /\ \A i \in 1 .. k - 1 : o[i].kind # "throw" /\ Rejected(o[i]))
                         => ServedCache(k)
                  /\ (/\ pfCall'.force \/ cachedPrice = NoQuote
                      /\ o[k].kind = "throw"
                      /\ \A i \in 1 .. k - 1 : Rejected(o[i]))
                         => IF k < 4 THEN pfCall'.queried > k
                            ELSE pfCall'.result = "throw"]_vars

C31_Witness ==
    /\ pfCall.op = "getPrice"
    /\ ~pfCall.force
    /\ pfCall.cacheBefore # NoQuote
    /\ pfCall.outcomes[1].kind = "quote"
    /\ pfCall.outcomes[2].kind = "throw"
    /\ pfCall.outcomes[3].kind = "quote" /\ ~Rejected(pfCall.outcomes[3])
    /\ pfCall.result = "cached"
    /\ pfCall.queried = 2

\* C32: a non-forced call made while the cached quote is younger than the
\* TTL returns that quote, calls no provider and leaves the cache and its
\* timestamp unchanged; a forced call always calls a provider
C32_FreshCacheShortcut ==
    [][GetPriceStep =>
          /\ (~pfCall'.force /\ CacheFresh) => ServedCache(0)
          /\ pfCall'.force => pfCall'.queried >= 1]_vars

C32_Witness ==
    /\ pfCall.op = "getPrice"
    /\ ~pfCall.force
    /\ pfCall.queried = 0
    /\ pfCall.outcomes[1] = Quote(Num(150, 1), "binance")
    /\ cachedPrice = Quote(Num(1000000, 1), "coingecko")
    /\ lastUpdateTime = now
    /\ now > 0

---------------------------------------------------------------------------
(* Claims about the order of the candle history, under SpecTicks *)

\* C33: each timeframe's closed history is in strictly increasing bucket
\* order, no bucket twice, and every closed candle's bucket precedes the
\* bucket of the in-progress candle
C33_HistoryOrdered ==
    \A t \in Timeframes :
        /\ Chronological(candles[t])
        /\ currentCandles[t] # NoCandle =>
               \A i \in 1 .. Len(candles[t]) :
                   candles[t][i].timestamp < currentCandles[t].timestamp

---------------------------------------------------------------------------
(* Claims about the cap of the candle history, under SpecCap *)

\* What an append of candle c makes of the history h: below the cap h with
\* c at its end, at the cap h without its oldest candle and with c at its
\* end
FifoAppend(h, c) ==
    IF Len(h) < maxCandles THEN h \o <<c>>
    ELSE SubSeq(h, 2, Len(h)) \o <<c>>

\* The step ends the in-progress candle of timeframe t: none is in progress
\* afterwards, or one of another bucket
Closes(t) ==
    /\ currentCandles[t] # NoCandle
    /\ \/ currentCandles'[t] = NoCandle
       \/ currentCandles'[t].timestamp # currentCandles[t].timestamp

\* C34: no timeframe's closed history holds more than maxCandles candles;
\* a step that ends the in-progress candle appends it, evicting exactly the
\* oldest candle when the history was full, and any other step leaves the
\* history alone
C34_CapFifo ==
    [][\A t \in Timeframes :
          /\ Len(candles'[t]) <= maxCandles
          /\ candles'[t] = IF Closes(t)
                           THEN FifoAppend(candles[t], currentCandles[t])
                           ELSE candles[t]]_vars

C34_Witness ==
    /\ Len(candles["15m"]) = maxCandles
    /\ candles["15m"][1] = FlatCandle("15m", 2)
    /\ candles["15m"][maxCandles].timestamp = (maxCandles + 1) * TimeframeMs("15m")
    /\ cbCall.op = "addTick"

---------------------------------------------------------------------------
(* Claims about RegimeFilter's soft failure, under SpecRegime *)

\* The history does not define the fast EMA, the slow EMA or the ADX: it
\* is empty, or one of them is null
IndicatorsUndefined(in) ==
    in.count = 0 \/ ~in.ema50.def \/ ~in.ema200.def \/ ~in.adx.def

\* C35: when the candle history leaves the fast EMA, the slow EMA or the
\* ADX undefined, the empty history included, analyze returns SIDEWAYS with
\* confidence 0 and does not throw
C35_FailsSoft ==
    (rgResult # RgNone /\ IndicatorsUndefined(rgInput)) =>
        /\ rgResult.outcome = "ok"
        /\ rgResult.regime = "SIDEWAYS"
        /\ RatEq(rgResult.confidence, <<0, 1>>)

---------------------------------------------------------------------------
(* Claims about invalid trades, under Spec *)

\* The sized trade is invalid: its stop distance is zero, or validateSize
\* rejects its size (below the floor, above the cap, or a potential loss
\* above the risk budget by more than 10%)
InvalidTrade(tr) ==
    \/ tr.stopPrice = tr.entryPrice
    \/ ~ValidateSize(Calculate([equity |-> tr.equity, entryPrice |-> tr.entryPrice,
                                stopPrice |-> tr.stopPrice,
                                riskPercent |-> RiskPerTrade,
                                maxPositionPercent |-> MaxPositionSize]),
                     tr.equity, tr.forceTest)

\* C36: a checkEntry step that sized an invalid trade calls no executor.buy
\* and leaves the position, the risk manager's state and the kill switch
\* unchanged
C36_InvalidTradeNoEffect ==
    [][(pc = "entry" /\ cycle'.trade.def /\ InvalidTrade(cycle'.trade)) =>
          /\ event' # "buy"
          /\ pc' # "buy"
          /\ UNCHANGED <<currentPosition, currentEquity, highWaterMark,
                         killSwitchTriggered, ksVars>>]_vars

---------------------------------------------------------------------------
(* Claims about the latch of RiskManager's kill-switch flag, under SpecRisk *)

\* C37: once set, the kill-switch flag stays set through every step that is
\* not reset(), whatever equity the updates bring; and a canTrade() call
\* made after the grace window while it is set returns canTrade = false
C37_FlagPersistsUntilReset ==
    [][killSwitchTriggered =>
          /\ rmCall'.op # "reset" => killSwitchTriggered'
          /\ (rmCall'.op = "canTrade" /\ now' = now
                  /\ now - startedAt >= startupGraceMs) => ~rmCall'.canTrade]_vars

\* The flag set by a breach, the equity back at a new high, and canTrade()
\* after the grace window still refusing
C37_Witness ==
    /\ killSwitchTriggered
    /\ ~rmResetSeen
    /\ currentEquity = 1200
    /\ highWaterMark = 1200
    /\ rmCall.op = "canTrade"
    /\ rmCall.at - startedAt >= startupGraceMs
    /\ ~rmCall.canTrade

---------------------------------------------------------------------------
(* Claims about getActiveTrades, under SpecTrades *)

\* getActiveTrades(): riskManager.getOpenPositions(), a copy of the list
GetActiveTrades == openPositions

\* C38: the list getActiveTrades() returns is empty while no position is
\* open, and otherwise holds exactly the current position, with its current
\* amount and stop price
C38_ActiveTradesMatchPosition ==
    GetActiveTrades = IF currentPosition = NoPos THEN <<>> ELSE <<currentPosition>>

---------------------------------------------------------------------------
(* Claims about the age of the price update() feeds, under SpecUpdate *)

\* C39: update() adds a tick only with a price that a provider delivered
\* less than 60 s before the call
C39_TickPriceIsRecent ==
    (mdCall.op = "update" /\ mdCall.added) =>
        mdCall.at - mdCall.obtained < TickReuseMs

---------------------------------------------------------------------------
(* Claims about shutdown beside a cycle that is selling, under SpecStop *)

\* C40: the holdings of one position are sold at most once: while the
\* executor.sell of a cycle (checkExit or its kill-switch flattening) is in
\* flight for the position, shutdown issues no second executor.sell for it
C40_PositionSoldOnce ==
    ~(/\ currentPosition # NoPos
      /\ pc \in {"sell", "closeSell"}
      /\ sdPc = "closeSell")

============================================================================
